---- MODULE Spec2Model ----
(***************************************************************************)
(* Verification model of the signature-algorithm classifier of             *)
(* net/cert/pki/signature_algorithm.cc (src/unnamed/part_000).             *)
(*                                                                         *)
(* Byte strings are sequences of integers 0..255.  The DER reader          *)
(* (net/der/parser.h over BoringSSL's CBS) and the digest resolver         *)
(* (EVP_parse_digest_algorithm) are external collaborators of the          *)
(* classifier; they are modelled byte by byte from their DER contract.     *)
(***************************************************************************)
EXTENDS Integers, Sequences, FiniteSets, TLC

VARIABLES
    pc,       \* "idle", or "returned" after a call
    fn,       \* the function the last call was made to
    input,    \* the bytes given to the last call
    sink,     \* whether |errors| of the last call was non-null
    before,   \* what the caller's CertErrors held when the call was made
    errors,   \* what it holds now
    outBefore, \* what the out-parameter of the last call held before it
    out,      \* what it holds now
    result,   \* the value the last call returned
    algArg,   \* the SignatureAlgorithm given to the last call that takes one
    calls,    \* calls made with the CertErrors the caller keeps
    failed,   \* those of them that returned absl::nullopt
    frames    \* the stack frame of the call each thread is in

\* The variables of the signature-algorithm classifier are the ones above;
\* those of base::Process cgroup clean-up (process_linux.cc) follow.
VARIABLES
    feature,        \* FeatureList::IsEnabled(kOneGroupPerRenderer)
    cgroupsEnabled, \* CGroups::Get().enabled
    unique_token,   \* unique_token_ of each Process
    started,        \* whether CleanUpProcessAsync was called on it
    pool,           \* the tasks posted to the ThreadPool and not yet run
    attempts,       \* DeleteFile(cgroup) calls made for each Process
    moves,          \* WriteFile(background_file, pid) calls made for it
    deleted         \* whether a DeleteFile(cgroup) for it returned true

\* Those of a caller of the static functions of ProxyClientSocket
\* (proxy_client_socket.cc).
VARIABLES
    called,          \* the function called that returned, "" when none
    host_and_port,   \* endpoint.ToString()
    extra_headers,   \* the HttpRequestHeaders given as extra_headers
    user_agent,      \* the user agent given
    request_line,    \* *request_line
    request_headers, \* *request_headers
    response_before, \* the header lines of response.headers at the call
    response_headers \* the header lines of response.headers

\* Those of the threads that call RandomPeriod (partition_alloc-inl.h).
VARIABLES
    counter,         \* the thread_local counter of each thread
    run,             \* the calls of each thread since one returned true
    last             \* the last call: its thread, what it read, what it did

classifierVars ==
    <<pc, fn, input, sink, before, errors, outBefore, out, result, algArg, calls,
      failed, frames>>

cleanUpVars ==
    <<feature, cgroupsEnabled, unique_token, started, pool, attempts, moves,
      deleted>>

socketVars ==
    <<called, host_and_port, extra_headers, user_agent, request_line,
      request_headers, response_before, response_headers>>

periodVars == <<counter, run, last>>

notClassifier == <<cleanUpVars, socketVars, periodVars>>

notCleanUp == <<classifierVars, socketVars, periodVars>>

notSocket == <<classifierVars, cleanUpVars, periodVars>>

notPeriod == <<classifierVars, cleanUpVars, socketVars>>

vars == <<classifierVars, cleanUpVars, socketVars, periodVars>>

(***************************************************************************)
(* DER reader primitives (der::Input, der::Parser, CBS).  An operator      *)
(* named ...After... is the rest of the function it belongs to, from the   *)
(* statement that follows the call whose result it is given.               *)
(***************************************************************************)

\* der::Input(): the empty span.
EmptyInput == <<>>

\* A span of |b| from position |from| (1-based) to the end.
From(b, from) == SubSeq(b, from, Len(b))

\* A tag (der::Tag, CBS_ASN1_TAG): the class and constructed bits of the
\* identifier octet, and the tag number.
Tag(bits, number) == <<bits, number>>

kInteger == Tag(0, 2)

kNull == Tag(0, 5)

kOid == Tag(0, 6)

kSequence == Tag(32, 16)

ContextSpecificConstructed(n) == Tag(160, n)

\* parse_base128_integer followed by the range check of parse_asn1_tag: the
\* tag number of a high-tag-number identifier, read from position |i| of |b|
\* with |v| accumulated so far.  ok = FALSE on a truncated or non-minimal
\* number, on one below 31 and on one above the 29 bits a tag number has:
\* once v reaches 2^22 another digit makes it too large, whatever the digit.
RECURSIVE ParseBase128(_, _, _)
ParseBase128(b, i, v) ==
    IF i > Len(b) THEN [ok |-> FALSE, v |-> 0, next |-> i]
    ELSE IF v >= 2^22 THEN [ok |-> FALSE, v |-> 0, next |-> i]
    ELSE IF v = 0 /\ b[i] = 128 THEN [ok |-> FALSE, v |-> 0, next |-> i]
    ELSE IF b[i] >= 128 THEN ParseBase128(b, i + 1, v * 128 + (b[i] % 128))
    ELSE [ok |-> v * 128 + b[i] >= 31, v |-> v * 128 + b[i], next |-> i + 1]

\* parse_asn1_tag: the identifier octets at the head of |b|.  The tag of
\* number 0 in the universal class is reserved and refused.
HighTag(bits, n) == [ok |-> n.ok, tag |-> Tag(bits, n.v), next |-> n.next]

ParseAsn1Tag(b) ==
    IF Len(b) = 0 THEN [ok |-> FALSE, tag |-> Tag(0, 0), next |-> 1]
    ELSE IF b[1] % 32 # 31
    THEN [ok |-> b[1] \notin {0, 32}, tag |-> Tag((b[1] \div 32) * 32, b[1] % 32),
          next |-> 2]
    ELSE HighTag((b[1] \div 32) * 32, ParseBase128(b, 2, 0))

\* Big-endian value of the |n| bytes of |b| starting at |i|.
RECURSIVE BigEndian(_, _, _)
BigEndian(b, i, n) ==
    IF n = 0 THEN 0 ELSE BigEndian(b, i, n - 1) * 256 + b[i + n - 1]

\* The value of |nb| <= 4 length octets at |i|.  A span is far shorter than
\* 2^31 - 1 bytes, which stands for every length from there on.
LengthValue(b, i, nb) ==
    IF nb = 4 /\ b[i] >= 128 THEN 2147483647 - Len(b) ELSE BigEndian(b, i, nb)

BadLength == [ok |-> FALSE, len |-> 0, next |-> 0]

\* The long form must be needed (a length of 128 or more) and minimal.
CheckedLength(l, nb, next) ==
    IF l < 128 \/ l < 256^(nb - 1) THEN BadLength
    ELSE [ok |-> TRUE, len |-> l, next |-> next]

LongLength(b, i, nb) ==
    IF nb = 0 \/ nb > 4 \/ i + nb > Len(b) THEN BadLength
    ELSE CheckedLength(LengthValue(b, i + 1, nb), nb, i + nb + 1)

\* The length octets of DER at position |i| <= Len(b): the content length
\* and the position of the content.  The indefinite form is refused.
DerLength(b, i) ==
    IF b[i] < 128 THEN [ok |-> TRUE, len |-> b[i], next |-> i + 1]
    ELSE LongLength(b, i, b[i] - 128)

BadElement == [ok |-> FALSE, tag |-> Tag(0, 0), hlen |-> 0, tlen |-> 0]

ElementAfterLength(b, t, l) ==
    IF ~l.ok \/ l.next - 1 + l.len > Len(b) THEN BadElement
    ELSE [ok |-> TRUE, tag |-> t.tag, hlen |-> l.next - 1,
          tlen |-> l.next - 1 + l.len]

ElementAfterTag(b, t) ==
    IF ~t.ok \/ t.next > Len(b) THEN BadElement
    ELSE ElementAfterLength(b, t, DerLength(b, t.next))

\* CBS_get_any_asn1_element in DER mode: the first TLV of |b|.  |hlen| is
\* the length of identifier and length octets, |tlen| that of the whole
\* element.
ReadAnyAsn1Element(b) == ElementAfterTag(b, ParseAsn1Tag(b))

\* der::Parser::HasMore.
HasMore(parser) == Len(parser) > 0

TagOfElement(parser, tag, e) ==
    IF e.ok /\ e.tag = tag
    THEN [ok |-> TRUE, value |-> SubSeq(parser, e.hlen + 1, e.tlen),
          rest |-> From(parser, e.tlen + 1)]
    ELSE [ok |-> FALSE, value |-> EmptyInput, rest |-> parser]

\* der::Parser::ReadTag: reads the next TLV if it carries |tag|; the parser
\* does not advance on failure.
ReadTag(parser, tag) == TagOfElement(parser, tag, ReadAnyAsn1Element(parser))

\* der::Parser::ReadConstructed / ReadSequence: ReadTag, the value handed to
\* a new parser.
ReadConstructed(parser, tag) == ReadTag(parser, tag)

ReadSequence(parser) == ReadConstructed(parser, kSequence)

RawOfElement(parser, e) ==
    IF e.ok
    THEN [ok |-> TRUE, value |-> SubSeq(parser, 1, e.tlen),
          rest |-> From(parser, e.tlen + 1)]
    ELSE [ok |-> FALSE, value |-> EmptyInput, rest |-> parser]

\* der::Parser::ReadRawTLV: the next element, identifier and length octets
\* included.
ReadRawTLV(parser) == RawOfElement(parser, ReadAnyAsn1Element(parser))

\* A uint64_t, held as its base-256 digits without leading zeros (0 is the
\* empty sequence), so that all 64 bits are exact.
Uint64(n) == IF n = 0 THEN <<>> ELSE <<n>>

\* der::IsValidInteger: not empty, and minimal.
IsValidInteger(v) ==
    /\ Len(v) > 0
    /\ Len(v) > 1 => ~(v[1] = 0 /\ v[2] < 128)
    /\ Len(v) > 1 => ~(v[1] = 255 /\ v[2] >= 128)

\* der::ParseUint64: a valid, non-negative INTEGER of at most 8 octets.
ParseUint64(r) ==
    IF r.ok /\ IsValidInteger(r.value) /\ r.value[1] < 128 /\ Len(r.value) <= 8
    THEN [ok |-> TRUE, rest |-> r.rest,
          value |-> IF r.value[1] = 0 THEN From(r.value, 2) ELSE r.value]
    ELSE [ok |-> FALSE, rest |-> r.rest, value |-> <<>>]

\* der::Parser::ReadUint64: ReadTag(kInteger), then der::ParseUint64.
ReadUint64(parser) == ParseUint64(ReadTag(parser, kInteger))

(***************************************************************************)
(* OID constants of the classifier (content octets).                       *)
(***************************************************************************)

kOidMd2WithRsaEncryption == <<42, 134, 72, 134, 247, 13, 1, 1, 2>>

kOidMd4WithRsaEncryption == <<42, 134, 72, 134, 247, 13, 1, 1, 3>>

kOidMd5WithRsaEncryption == <<42, 134, 72, 134, 247, 13, 1, 1, 4>>

kOidSha1WithRsaEncryption == <<42, 134, 72, 134, 247, 13, 1, 1, 5>>

kOidSha1WithRsaSignature == <<43, 14, 3, 2, 29>>

kOidSha256WithRsaEncryption == <<42, 134, 72, 134, 247, 13, 1, 1, 11>>

kOidSha384WithRsaEncryption == <<42, 134, 72, 134, 247, 13, 1, 1, 12>>

kOidSha512WithRsaEncryption == <<42, 134, 72, 134, 247, 13, 1, 1, 13>>

kOidEcdsaWithSha1 == <<42, 134, 72, 206, 61, 4, 1>>

kOidEcdsaWithSha256 == <<42, 134, 72, 206, 61, 4, 3, 2>>

kOidEcdsaWithSha384 == <<42, 134, 72, 206, 61, 4, 3, 3>>

kOidEcdsaWithSha512 == <<42, 134, 72, 206, 61, 4, 3, 4>>

kOidRsaSsaPss == <<42, 134, 72, 134, 247, 13, 1, 1, 10>>

\* The bytes of ecdsa-with-SHA1 (1.2.840.10045.4.1) under the name of
\* id-dsa-with-sha1 (1.2.840.10040.4.3).
kOidDsaWithSha1_BytesOfEcdsaWithSha1 == <<42, 134, 72, 206, 61, 4, 1>>

kOidDsaWithSha1 == <<42, 134, 72, 206, 56, 4, 3>>

kOidDsaWithSha256 == <<96, 134, 72, 1, 101, 3, 4, 3, 2>>

kOidMgf1 == <<42, 134, 72, 134, 247, 13, 1, 1, 8>>

(***************************************************************************)
(* The digest resolver of BoringSSL (EVP_parse_digest_algorithm): the      *)
(* digest OIDs it knows and the EVP_MD it returns for each.                *)
(***************************************************************************)

kOidDigestMd4 == <<42, 134, 72, 134, 247, 13, 2, 4>>

kOidDigestMd5 == <<42, 134, 72, 134, 247, 13, 2, 5>>

kOidDigestSha1 == <<43, 14, 3, 2, 26>>

kOidDigestSha256 == <<96, 134, 72, 1, 101, 3, 4, 2, 1>>

kOidDigestSha384 == <<96, 134, 72, 1, 101, 3, 4, 2, 2>>

kOidDigestSha512 == <<96, 134, 72, 1, 101, 3, 4, 2, 3>>

kOidDigestSha224 == <<96, 134, 72, 1, 101, 3, 4, 2, 4>>

\* cbs_to_md: the EVP_MD of a digest OID, "NULL" when it is not known.
CbsToMd(oid) ==
    CASE oid = kOidDigestMd4 -> "EVP_md4"
      [] oid = kOidDigestMd5 -> "EVP_md5"
      [] oid = kOidDigestSha1 -> "EVP_sha1"
      [] oid = kOidDigestSha224 -> "EVP_sha224"
      [] oid = kOidDigestSha256 -> "EVP_sha256"
      [] oid = kOidDigestSha384 -> "EVP_sha384"
      [] oid = kOidDigestSha512 -> "EVP_sha512"
      [] OTHER -> "NULL"

\* The parameters, if present, must be one NULL and nothing more.
DigestAfterParam(md, param) ==
    IF ~param.ok \/ Len(param.value) # 0 \/ Len(param.rest) # 0 THEN "NULL"
    ELSE md

DigestAfterLookup(md, rest) ==
    IF md = "NULL" THEN "NULL"
    ELSE IF Len(rest) > 0 THEN DigestAfterParam(md, ReadTag(rest, kNull))
    ELSE md

DigestAfterOid(oid) ==
    IF ~oid.ok THEN "NULL" ELSE DigestAfterLookup(CbsToMd(oid.value), oid.rest)

DigestAfterSequence(algorithm) ==
    IF ~algorithm.ok THEN "NULL"
    ELSE DigestAfterOid(ReadTag(algorithm.value, kOid))

\* EVP_parse_digest_algorithm: a SEQUENCE holding a known digest OID and
\* either nothing more or exactly one NULL.  Bytes after the SEQUENCE stay
\* in the CBS and are not looked at.
EVP_parse_digest_algorithm(cbs) == DigestAfterSequence(ReadTag(cbs, kSequence))

(***************************************************************************)
(* signature_algorithm.cc                                                  *)
(***************************************************************************)

\* The value of an absl::optional that holds nothing.
nullopt == "nullopt"

\* A local that has been declared and not assigned.
Uninit == "uninitialized"

\* IsEmpty: |input| is empty.
IsEmpty(in) == Len(in) = 0

\* IsNull without the check that the value of the NULL is empty.
IsNullAfterReadTag_AnyContent(null_value) ==
    IF ~null_value.ok THEN FALSE
    ELSE ~HasMore(null_value.rest)

\* IsNull, from the ReadTag on: the value is expected to be empty, and the
\* entire input must be the NULL.
IsNullAfterReadTag(null_value) ==
    IF ~null_value.ok THEN FALSE
    ELSE IF ~IsEmpty(null_value.value) THEN FALSE
    ELSE ~HasMore(null_value.rest)

\* IsNull: the entirety of the input is a NULL value.
IsNull(in) == IsNullAfterReadTag(ReadTag(in, kNull))

IsNullOrEmpty(in) == IsNull(in) \/ IsEmpty(in)

\* The reading of the parameters without the check that nothing follows
\* them in the SEQUENCE.
AlgorithmIdentifierAfterParameters_AllowsMore(algorithm, tlv) ==
    IF ~tlv.ok
    THEN [ok |-> FALSE, algorithm |-> algorithm, parameters |-> EmptyInput]
    ELSE [ok |-> TRUE, algorithm |-> algorithm, parameters |-> tlv.value]

\* ParseAlgorithmIdentifier, from the reading of the parameters on.
AlgorithmIdentifierAfterParameters(algorithm, tlv) ==
    IF ~tlv.ok
    THEN [ok |-> FALSE, algorithm |-> algorithm, parameters |-> EmptyInput]
    ELSE [ok |-> ~HasMore(tlv.rest), algorithm |-> algorithm,
          parameters |-> tlv.value]

\* The reading of the OID and what follows without *parameters =
\* der::Input(): absent parameters leave |*parameters| as it was.
AlgorithmIdentifierAfterOid_NoReset(alg, algorithm0, parameters0) ==
    IF ~alg.ok
    THEN [ok |-> FALSE, algorithm |-> algorithm0, parameters |-> parameters0]
    ELSE IF HasMore(alg.rest)
    THEN AlgorithmIdentifierAfterParameters(alg.value, ReadRawTLV(alg.rest))
    ELSE [ok |-> TRUE, algorithm |-> alg.value, parameters |-> parameters0]

\* ParseAlgorithmIdentifier, from the reading of the OID on.  |*parameters|
\* is reset before the optional parameters are read.
AlgorithmIdentifierAfterOid(alg, algorithm0, parameters0) ==
    IF ~alg.ok
    THEN [ok |-> FALSE, algorithm |-> algorithm0, parameters |-> parameters0]
    ELSE IF HasMore(alg.rest)
    THEN AlgorithmIdentifierAfterParameters(alg.value, ReadRawTLV(alg.rest))
    ELSE [ok |-> TRUE, algorithm |-> alg.value, parameters |-> EmptyInput]

\* ParseAlgorithmIdentifier without the check that nothing follows the
\* SEQUENCE.
AlgorithmIdentifierAfterSequence_NoTrailingCheck(seq, algorithm0, parameters0) ==
    IF ~seq.ok
    THEN [ok |-> FALSE, algorithm |-> algorithm0, parameters |-> parameters0]
    ELSE AlgorithmIdentifierAfterOid(ReadTag(seq.value, kOid), algorithm0,
                                     parameters0)

\* ParseAlgorithmIdentifier, from the reading of the SEQUENCE on: there
\* shouldn't be anything after the sequence.
AlgorithmIdentifierAfterSequence(seq, algorithm0, parameters0) ==
    IF ~seq.ok
    THEN [ok |-> FALSE, algorithm |-> algorithm0, parameters |-> parameters0]
    ELSE IF HasMore(seq.rest)
    THEN [ok |-> FALSE, algorithm |-> algorithm0, parameters |-> parameters0]
    ELSE AlgorithmIdentifierAfterOid(ReadTag(seq.value, kOid), algorithm0,
                                     parameters0)

\* ParseAlgorithmIdentifier.  |algorithm0| and |parameters0| are what the
\* out-parameters hold before the call; the record returned holds the
\* return value and what they hold after it.
ParseAlgorithmIdentifier(in, algorithm0, parameters0) ==
    AlgorithmIdentifierAfterSequence(ReadSequence(in), algorithm0, parameters0)

\* ParseHashAlgorithm with MD5 supported as well.
HashAlgorithmOfMd_Md5(md, out0) ==
    IF md = "EVP_sha1" THEN [ok |-> TRUE, out |-> "Sha1"]
    ELSE IF md = "EVP_sha256" THEN [ok |-> TRUE, out |-> "Sha256"]
    ELSE IF md = "EVP_sha384" THEN [ok |-> TRUE, out |-> "Sha384"]
    ELSE IF md = "EVP_sha512" THEN [ok |-> TRUE, out |-> "Sha512"]
    ELSE IF md = "EVP_md5" THEN [ok |-> TRUE, out |-> "Md5"]
    ELSE [ok |-> FALSE, out |-> out0]

\* ParseHashAlgorithm, from the comparisons of |md| on.
HashAlgorithmOfMd(md, out0) ==
    IF md = "EVP_sha1" THEN [ok |-> TRUE, out |-> "Sha1"]
    ELSE IF md = "EVP_sha256" THEN [ok |-> TRUE, out |-> "Sha256"]
    ELSE IF md = "EVP_sha384" THEN [ok |-> TRUE, out |-> "Sha384"]
    ELSE IF md = "EVP_sha512" THEN [ok |-> TRUE, out |-> "Sha512"]
    ELSE [ok |-> FALSE, out |-> out0]

\* ParseHashAlgorithm.  |out0| is what |*out| holds before the call.
ParseHashAlgorithm(in, out0) ==
    HashAlgorithmOfMd(EVP_parse_digest_algorithm(in), out0)

\* ParseMaskGenAlgorithm without the comparison of the OID with id-mgf1.
MaskGenAfterIdentifier_AnyOid(id, mgf1_hash0) ==
    IF ~id.ok THEN [ok |-> FALSE, out |-> mgf1_hash0]
    ELSE ParseHashAlgorithm(id.parameters, mgf1_hash0)

\* ParseMaskGenAlgorithm, from the decoding of the AlgorithmIdentifier on:
\* MGF1 is the only supported mask generation algorithm.
MaskGenAfterIdentifier(id, mgf1_hash0) ==
    IF ~id.ok THEN [ok |-> FALSE, out |-> mgf1_hash0]
    ELSE IF id.algorithm # kOidMgf1 THEN [ok |-> FALSE, out |-> mgf1_hash0]
    ELSE ParseHashAlgorithm(id.parameters, mgf1_hash0)

\* ParseMaskGenAlgorithm.  |mgf1_hash0| is what |*mgf1_hash| holds before
\* the call.
ParseMaskGenAlgorithm(in, mgf1_hash0) ==
    MaskGenAfterIdentifier(ParseAlgorithmIdentifier(in, EmptyInput, EmptyInput),
                           mgf1_hash0)

\* ParseRsaPss: the locals hash, mgf1_hash and salt_length, and whether the
\* condition that reads them all (the first if after their declaration,
\* evaluated left to right with short circuit) let control pass.
PssLocals(ok, hash, mgf1_hash, salt_length) ==
    [ok |-> ok, hash |-> hash, mgf1_hash |-> mgf1_hash,
     salt_length |-> salt_length]

\* The reading of the saltLength without params_parser.HasMore(): what
\* follows field [2] is ignored.
PssAfterSaltLength_IgnoreTrailer(hash, mgf1_hash, s, params_rest) ==
    IF ~s.ok THEN PssLocals(FALSE, hash, mgf1_hash, Uninit)
    ELSE PssLocals(~HasMore(s.rest), hash, mgf1_hash, s.value)

\* ... || !salt_length_parser.ReadUint64(&salt_length) ||
\* salt_length_parser.HasMore() || params_parser.HasMore()
PssAfterSaltLength(hash, mgf1_hash, s, params_rest) ==
    IF ~s.ok THEN PssLocals(FALSE, hash, mgf1_hash, Uninit)
    ELSE PssLocals(~HasMore(s.rest) /\ ~HasMore(params_rest), hash, mgf1_hash,
                   s.value)

\* ... || !params_parser.ReadConstructed(ContextSpecificConstructed(2), ...)
PssAfterTag2(hash, mgf1_hash, f2) ==
    IF ~f2.ok THEN PssLocals(FALSE, hash, mgf1_hash, Uninit)
    ELSE PssAfterSaltLength(hash, mgf1_hash, ReadUint64(f2.value), f2.rest)

\* ... || !ParseMaskGenAlgorithm(field, &mgf1_hash)
PssAfterMaskGen(hash, m, params_rest) ==
    IF ~m.ok THEN PssLocals(FALSE, hash, m.out, Uninit)
    ELSE PssAfterTag2(hash, m.out,
                      ReadConstructed(params_rest, ContextSpecificConstructed(2)))

\* The reading of field [1] with the field optional: when it is not there
\* the mask generation hash is taken to be the message hash.
PssAfterTag1_DefaultMaskGen(hash, f1) ==
    IF ~f1.ok
    THEN PssAfterTag2(hash, hash,
                      ReadConstructed(f1.rest, ContextSpecificConstructed(2)))
    ELSE PssAfterMaskGen(hash, ParseMaskGenAlgorithm(f1.value, Uninit), f1.rest)

\* ... || !params_parser.ReadTag(ContextSpecificConstructed(1), &field)
PssAfterTag1(hash, f1) ==
    IF ~f1.ok THEN PssLocals(FALSE, hash, Uninit, Uninit)
    ELSE PssAfterMaskGen(hash, ParseMaskGenAlgorithm(f1.value, Uninit), f1.rest)

\* ... || !ParseHashAlgorithm(field, &hash)
PssAfterHash(h, params_rest) ==
    IF ~h.ok THEN PssLocals(FALSE, h.out, Uninit, Uninit)
    ELSE PssAfterTag1(h.out,
                      ReadTag(params_rest, ContextSpecificConstructed(1)))

\* The reading of field [0] with the field optional and no default
\* assigned: when it is not there |hash| is left as declared.
PssAfterTag0_OptionalHash(f0) ==
    IF ~f0.ok
    THEN PssAfterTag1(Uninit, ReadTag(f0.rest, ContextSpecificConstructed(1)))
    ELSE PssAfterHash(ParseHashAlgorithm(f0.value, Uninit), f0.rest)

\* !params_parser.ReadTag(ContextSpecificConstructed(0), &field)
PssAfterTag0(f0) ==
    IF ~f0.ok THEN PssLocals(FALSE, Uninit, Uninit, Uninit)
    ELSE PssAfterHash(ParseHashAlgorithm(f0.value, Uninit), f0.rest)

\* ParseRsaPss, the reading of the three fields.
ParseRsaPssFields(params_parser) ==
    PssAfterTag0(ReadTag(params_parser, ContextSpecificConstructed(0)))

\* The limiting of the combinations without hash != mgf1_hash.
PssCombination_NoHashMatch(hash, mgf1_hash, salt_length) ==
    IF hash = "Sha256" /\ salt_length = Uint64(32) THEN "kRsaPssSha256"
    ELSE IF hash = "Sha384" /\ salt_length = Uint64(48) THEN "kRsaPssSha384"
    ELSE IF hash = "Sha512" /\ salt_length = Uint64(64) THEN "kRsaPssSha512"
    ELSE nullopt

\* ParseRsaPss, the limiting of the combinations to those of TLS 1.3.
PssCombination(hash, mgf1_hash, salt_length) ==
    IF hash # mgf1_hash THEN nullopt
    ELSE IF hash = "Sha256" /\ salt_length = Uint64(32) THEN "kRsaPssSha256"
    ELSE IF hash = "Sha384" /\ salt_length = Uint64(48) THEN "kRsaPssSha384"
    ELSE IF hash = "Sha512" /\ salt_length = Uint64(64) THEN "kRsaPssSha512"
    ELSE nullopt

PssAfterFields(f) ==
    IF ~f.ok THEN nullopt
    ELSE PssCombination(f.hash, f.mgf1_hash, f.salt_length)

\* ParseRsaPss, from the reading of the SEQUENCE on: there shouldn't be
\* anything after the sequence.
PssAfterSequence(seq) ==
    IF ~seq.ok THEN nullopt
    ELSE IF HasMore(seq.rest) THEN nullopt
    ELSE PssAfterFields(ParseRsaPssFields(seq.value))

\* ParseRsaPss.
ParseRsaPss(params) == PssAfterSequence(ReadSequence(params))

\* DEFINE_CERT_ERROR_ID(kUnknownSignatureAlgorithm, ...).
kUnknownSignatureAlgorithm == "Unknown signature algorithm"

\* The sequential checks of ParseSignatureAlgorithm in source order: the OID
\* compared, the rule its parameters must meet, and the value returned.
\* For id-RSASSA-PSS the OID alone decides and ParseRsaPss gives the value.
Checks ==
    << [oid |-> kOidSha1WithRsaEncryption, rule |-> "IsNullOrEmpty", ret |-> "kRsaPkcs1Sha1"],
       [oid |-> kOidSha256WithRsaEncryption, rule |-> "IsNullOrEmpty", ret |-> "kRsaPkcs1Sha256"],
       [oid |-> kOidSha384WithRsaEncryption, rule |-> "IsNullOrEmpty", ret |-> "kRsaPkcs1Sha384"],
       [oid |-> kOidSha512WithRsaEncryption, rule |-> "IsNullOrEmpty", ret |-> "kRsaPkcs1Sha512"],
       [oid |-> kOidSha1WithRsaSignature, rule |-> "IsNullOrEmpty", ret |-> "kRsaPkcs1Sha1"],
       [oid |-> kOidMd2WithRsaEncryption, rule |-> "IsNullOrEmpty", ret |-> "kRsaPkcs1Md2"],
       [oid |-> kOidMd4WithRsaEncryption, rule |-> "IsNullOrEmpty", ret |-> "kRsaPkcs1Md4"],
       [oid |-> kOidMd5WithRsaEncryption, rule |-> "IsNullOrEmpty", ret |-> "kRsaPkcs1Md5"],
       [oid |-> kOidEcdsaWithSha1, rule |-> "IsEmpty", ret |-> "kEcdsaSha1"],
       [oid |-> kOidEcdsaWithSha256, rule |-> "IsEmpty", ret |-> "kEcdsaSha256"],
       [oid |-> kOidEcdsaWithSha384, rule |-> "IsEmpty", ret |-> "kEcdsaSha384"],
       [oid |-> kOidEcdsaWithSha512, rule |-> "IsEmpty", ret |-> "kEcdsaSha512"],
       [oid |-> kOidRsaSsaPss, rule |-> "none", ret |-> "ParseRsaPss"],
       [oid |-> kOidDsaWithSha1, rule |-> "IsNullOrEmpty", ret |-> "kDsaSha1"],
       [oid |-> kOidDsaWithSha256, rule |-> "IsNullOrEmpty", ret |-> "kDsaSha256"] >>

\* The condition of one check with the check of the legacy OIW OID
\* sha1WithRSASignature left out.
CheckMatches_NoLegacyOid(c, oid, params) ==
    /\ oid = c.oid
    /\ oid # kOidSha1WithRsaSignature
    /\ CASE c.rule = "IsNullOrEmpty" -> IsNullOrEmpty(params)
         [] c.rule = "IsEmpty" -> IsEmpty(params)
         [] OTHER -> TRUE

\* The condition of one check with the rule of RSA PKCS#1 and DSA applied to
\* ECDSA too.
CheckMatches_EcdsaLenient(c, oid, params) ==
    /\ oid = c.oid
    /\ CASE c.rule = "IsNullOrEmpty" -> IsNullOrEmpty(params)
         [] c.rule = "IsEmpty" -> IsNullOrEmpty(params)
         [] OTHER -> TRUE

\* The condition of one check.
CheckMatches(c, oid, params) ==
    /\ oid = c.oid
    /\ CASE c.rule = "IsNullOrEmpty" -> IsNullOrEmpty(params)
         [] c.rule = "IsEmpty" -> IsEmpty(params)
         [] OTHER -> TRUE

\* The checks from the |i|-th on: the value returned by the first one whose
\* condition holds, "fallthrough" when control reaches the end of them.
RECURSIVE RunChecks(_, _, _, _)
RunChecks(checks, i, oid, params) ==
    IF i > Len(checks) THEN "fallthrough"
    ELSE IF CheckMatches(checks[i], oid, params)
    THEN IF checks[i].ret = "ParseRsaPss" THEN ParseRsaPss(params)
         ELSE checks[i].ret
    ELSE RunChecks(checks, i + 1, oid, params)

\* CreateCertErrorParams2Der("oid", oid, "params", params) under the id.
UnknownSignatureAlgorithmError(oid, params) ==
    [id |-> kUnknownSignatureAlgorithm, oid |-> oid, params |-> params]

\* The end of ParseSignatureAlgorithm without the return that follows the
\* adding of the error: control runs off the end of the function.
SignatureAlgorithmAfterChecks_NoFinalReturn(r, id, has_errors, errors0) ==
    [ret |-> r,
     errors |-> IF r = "fallthrough" /\ has_errors
                THEN Append(errors0,
                            UnknownSignatureAlgorithmError(id.algorithm,
                                                           id.parameters))
                ELSE errors0]

\* The end of ParseSignatureAlgorithm with the error added before the value
\* of a check that held is returned as well.
SignatureAlgorithmAfterChecks_AlwaysRecords(r, id, has_errors, errors0) ==
    [ret |-> IF r # "fallthrough" THEN r ELSE nullopt,
     errors |-> IF has_errors
                THEN Append(errors0,
                            UnknownSignatureAlgorithmError(id.algorithm,
                                                           id.parameters))
                ELSE errors0]

\* ParseSignatureAlgorithm, after the checks: Unknown signature algorithm.
SignatureAlgorithmAfterChecks(r, id, has_errors, errors0) ==
    IF r # "fallthrough" THEN [ret |-> r, errors |-> errors0]
    ELSE [ret |-> nullopt,
          errors |-> IF has_errors
                     THEN Append(errors0,
                                 UnknownSignatureAlgorithmError(id.algorithm,
                                                                id.parameters))
                     ELSE errors0]

\* ParseSignatureAlgorithm adding the error also when the
\* AlgorithmIdentifier does not decode.
SignatureAlgorithmAfterIdentifier_RecordsUndecodable(id, has_errors, errors0) ==
    IF ~id.ok
    THEN [ret |-> nullopt,
          errors |-> IF has_errors
                     THEN Append(errors0,
                                 UnknownSignatureAlgorithmError(id.algorithm,
                                                                id.parameters))
                     ELSE errors0]
    ELSE SignatureAlgorithmAfterChecks(
             RunChecks(Checks, 1, id.algorithm, id.parameters), id, has_errors,
             errors0)

\* ParseSignatureAlgorithm giving up when no CertErrors is passed.
SignatureAlgorithmAfterIdentifier_NeedsSink(id, has_errors, errors0) ==
    IF ~id.ok \/ ~has_errors THEN [ret |-> nullopt, errors |-> errors0]
    ELSE SignatureAlgorithmAfterChecks(
             RunChecks(Checks, 1, id.algorithm, id.parameters), id, has_errors,
             errors0)

\* ParseSignatureAlgorithm, from the decoding of the AlgorithmIdentifier on.
SignatureAlgorithmAfterIdentifier(id, has_errors, errors0) ==
    IF ~id.ok THEN [ret |-> nullopt, errors |-> errors0]
    ELSE SignatureAlgorithmAfterChecks(
             RunChecks(Checks, 1, id.algorithm, id.parameters), id, has_errors,
             errors0)

\* ParseSignatureAlgorithm.  |has_errors| says whether |errors| is non-null
\* and |errors0| is what the CertErrors holds before the call; the record
\* returned holds the return value and what the CertErrors holds after it.
ParseSignatureAlgorithm(algorithm_identifier, has_errors, errors0) ==
    SignatureAlgorithmAfterIdentifier(
        ParseAlgorithmIdentifier(algorithm_identifier, EmptyInput, EmptyInput),
        has_errors, errors0)

\* enum class SignatureAlgorithm.
SignatureAlgorithms ==
    {"kRsaPkcs1Md2", "kRsaPkcs1Md4", "kRsaPkcs1Md5", "kRsaPkcs1Sha1",
     "kRsaPkcs1Sha256", "kRsaPkcs1Sha384", "kRsaPkcs1Sha512", "kEcdsaSha1",
     "kEcdsaSha256", "kEcdsaSha384", "kEcdsaSha512", "kRsaPssSha256",
     "kRsaPssSha384", "kRsaPssSha512", "kDsaSha1", "kDsaSha256"}

\* GetTlsServerEndpointDigestAlgorithm with the digest of the signature
\* algorithm itself for the ones that use SHA-1.
GetTlsServerEndpointDigestAlgorithm_OwnDigest(alg) ==
    CASE alg \in {"kRsaPkcs1Sha1", "kEcdsaSha1"} -> "Sha1"
      [] alg \in {"kRsaPkcs1Md5"} -> "Sha256"
      [] alg \in {"kRsaPkcs1Sha256", "kEcdsaSha256"} -> "Sha256"
      [] alg \in {"kRsaPkcs1Sha384", "kEcdsaSha384"} -> "Sha384"
      [] alg \in {"kRsaPkcs1Sha512", "kEcdsaSha512"} -> "Sha512"
      [] alg = "kRsaPssSha256" -> "Sha256"
      [] alg = "kRsaPssSha384" -> "Sha384"
      [] alg = "kRsaPssSha512" -> "Sha512"
      [] alg \in {"kDsaSha1", "kDsaSha256", "kRsaPkcs1Md2", "kRsaPkcs1Md4"} ->
             nullopt
      [] OTHER -> nullopt

\* GetTlsServerEndpointDigestAlgorithm: the switch over |alg|, case by
\* case, and the return after it.
GetTlsServerEndpointDigestAlgorithm(alg) ==
    CASE alg \in {"kRsaPkcs1Md5", "kRsaPkcs1Sha1", "kEcdsaSha1"} -> "Sha256"
      [] alg \in {"kRsaPkcs1Sha256", "kEcdsaSha256"} -> "Sha256"
      [] alg \in {"kRsaPkcs1Sha384", "kEcdsaSha384"} -> "Sha384"
      [] alg \in {"kRsaPkcs1Sha512", "kEcdsaSha512"} -> "Sha512"
      [] alg = "kRsaPssSha256" -> "Sha256"
      [] alg = "kRsaPssSha384" -> "Sha384"
      [] alg = "kRsaPssSha512" -> "Sha512"
      [] alg \in {"kDsaSha1", "kDsaSha256", "kRsaPkcs1Md2", "kRsaPkcs1Md4"} ->
             nullopt
      [] OTHER -> nullopt

(***************************************************************************)
(* The inputs of the calls: DER encodings built from their parts, well     *)
(* formed and not.                                                         *)
(***************************************************************************)

\* Bytes appended after a complete AlgorithmIdentifier: at most this many.
MaxExtra == 2

\* Records the diagnostic sink holds before a call: at most this many.
MaxPrior == 1

\* The definite-form length octets of a content of |n| < 256 bytes.
EncLen(n) == IF n < 128 THEN <<n>> ELSE <<129, n>>

\* One element: identifier octet, length octets, content.
Tlv(tag, content) == <<tag>> \o EncLen(Len(content)) \o content

RECURSIVE Concat(_)
Concat(ss) == IF Len(ss) = 0 THEN <<>> ELSE ss[1] \o Concat(SubSeq(ss, 2, Len(ss)))

DerNull == <<5, 0>>

DerOid(oid) == Tlv(6, oid)

\* AlgorithmIdentifier ::= SEQUENCE { OID, parameters }, |params| the
\* encoded parameters (empty when absent).
AlgId(oid, params) == Tlv(48, DerOid(oid) \o params)

\* An OID of no table: sha224WithRSAEncryption, 1.2.840.113549.1.1.14.
kOidUnlisted == <<42, 134, 72, 134, 247, 13, 1, 1, 14>>

\* A digest OID the resolver does not know: md2, 1.2.840.113549.2.2.
kOidDigestMd2 == <<42, 134, 72, 134, 247, 13, 2, 2>>

TableOids == {Checks[i].oid : i \in 1..Len(Checks)}

TopOids == TableOids \cup {kOidUnlisted, kOidMgf1, kOidDigestSha256}

\* Parameter encodings: absent, NULL, NULL with content, an empty OCTET
\* STRING, an empty SEQUENCE, two NULLs, a NULL with a long-form length, a
\* cut element, an element of the reserved tag 0.
ParamForms ==
    {<<>>, DerNull, <<5, 1, 0>>, <<4, 0>>, <<48, 0>>, <<5, 0, 5, 0>>,
     <<5, 129, 0>>, <<5>>, <<0, 0>>}

ExtraBytes == {0, 5, 48}

RECURSIVE SeqsUpTo(_, _)
SeqsUpTo(S, n) ==
    IF n = 0 THEN {<<>>}
    ELSE LET shorter == SeqsUpTo(S, n - 1)
         IN  shorter \cup {Append(q, x) : q \in shorter, x \in S}

Extras == SeqsUpTo(ExtraBytes, MaxExtra)

TableInputs == {AlgId(oid, p) \o x : oid \in TopOids, p \in ParamForms, x \in Extras}

\* Inputs that are no AlgorithmIdentifier: empty, not a SEQUENCE, a cut
\* SEQUENCE, one whose first element is no OID, one of two parameters
\* elements with a good first.
MalformedInputs ==
    {<<>>, <<48>>, <<48, 0>>, <<49, 0>>,
     Tlv(49, DerOid(kOidSha256WithRsaEncryption) \o DerNull),
     Tlv(48, Tlv(4, kOidSha256WithRsaEncryption) \o DerNull),
     Tlv(48, DerNull \o DerOid(kOidSha256WithRsaEncryption)),
     SubSeq(AlgId(kOidSha256WithRsaEncryption, DerNull), 1, 14),
     SubSeq(AlgId(kOidEcdsaWithSha256, <<>>), 1, 9),
     <<48, 129, 13>> \o DerOid(kOidSha256WithRsaEncryption) \o DerNull,
     <<48, 128>> \o DerOid(kOidSha256WithRsaEncryption) \o DerNull \o <<0, 0>>}

\* RSASSA-PSS-params and their parts.
DigestOids ==
    {kOidDigestSha1, kOidDigestSha256, kOidDigestSha384, kOidDigestSha512,
     kOidDigestSha224, kOidDigestMd5, kOidDigestMd4, kOidDigestMd2}

HashId(oid, params) == Tlv(48, DerOid(oid) \o params)

MaskGen(oid, params) == Tlv(48, DerOid(oid) \o params)

\* The content octets of a non-negative INTEGER below 2^16.
EncUint(n) ==
    IF n < 128 THEN <<n>>
    ELSE IF n < 256 THEN <<0, n>>
    ELSE IF n < 32768 THEN <<n \div 256, n % 256>>
    ELSE <<0, n \div 256, n % 256>>

DerInt(content) == Tlv(2, content)

Field0(hash) == Tlv(160, hash)

Field1(mgf) == Tlv(161, mgf)

Field2(content) == Tlv(162, content)

\* trailerField [3] INTEGER 1, the default.
Field3 == Tlv(163, DerInt(<<1>>))

PssId(fields) == AlgId(kOidRsaSsaPss, Tlv(48, Concat(fields)))

\* hashAlgorithm, maskGenAlgorithm with id-mgf1 and saltLength as a
\* conforming encoder writes them, the digests with NULL parameters.
PssFields(h, m, s) ==
    << Field0(HashId(h, DerNull)), Field1(MaskGen(kOidMgf1, HashId(m, DerNull))),
       Field2(DerInt(EncUint(s))) >>

Salts == {0, 20, 32, 48, 64, 127, 128, 255, 256, 8192, 32768}

PssTripleInputs == {PssId(PssFields(h, m, s)) : h \in DigestOids, m \in DigestOids, s \in Salts}

\* The accepted triples.
PssAccepted ==
    {<<kOidDigestSha256, 32>>, <<kOidDigestSha384, 48>>, <<kOidDigestSha512, 64>>}

\* Every selection and order of the three fields of an accepted triple.
FieldOrders ==
    {<<>>, <<1>>, <<2>>, <<3>>, <<1, 2>>, <<1, 3>>, <<2, 1>>, <<2, 3>>, <<3, 1>>,
     <<3, 2>>, <<1, 2, 3>>, <<1, 3, 2>>, <<2, 1, 3>>, <<2, 3, 1>>, <<3, 1, 2>>,
     <<3, 2, 1>>}

Pick(fields, order) == [i \in 1..Len(order) |-> fields[order[i]]]

PssOrderInputs ==
    {PssId(Pick(PssFields(a[1], a[1], a[2]), o)) : a \in PssAccepted, o \in FieldOrders}

\* Elements after field [2], or after the INTEGER inside it.
AfterSalt == {Field3, DerNull, Tlv(162, DerInt(<<32>>)), Tlv(163, <<>>)}

PssTrailerInputs ==
    {PssId(PssFields(a[1], a[1], a[2]) \o <<t>>) : a \in PssAccepted, t \in AfterSalt}
    \cup
    {PssId(<< Field0(HashId(a[1], DerNull)),
              Field1(MaskGen(kOidMgf1, HashId(a[1], DerNull))),
              Field2(DerInt(EncUint(a[2])) \o t) >>) :
        a \in PssAccepted, t \in {DerNull, DerInt(<<1>>), <<0>>}}

\* Other encodings of the parts: digests with absent parameters, with
\* parameters that are no NULL, bytes after a digest, a mask generation
\* function that is not MGF1 or has no parameters, salt lengths that are no
\* valid unsigned INTEGER or that are long.
HashForms(h) ==
    {HashId(h, <<>>), HashId(h, DerNull), HashId(h, <<5, 1, 0>>),
     HashId(h, <<4, 0>>), HashId(h, DerNull \o DerNull),
     HashId(h, DerNull) \o DerNull, DerOid(h), <<>>}

MaskGenForms(m) ==
    {MaskGen(kOidMgf1, HashId(m, <<>>)), MaskGen(kOidMgf1, <<>>),
     MaskGen(kOidMgf1, DerNull), MaskGen(kOidUnlisted, HashId(m, DerNull)),
     MaskGen(kOidRsaSsaPss, HashId(m, DerNull)),
     MaskGen(kOidUnlisted, <<>>), MaskGen(m, DerNull),
     MaskGen(kOidMgf1, HashId(m, DerNull)) \o DerNull,
     MaskGen(kOidMgf1, HashId(m, DerNull) \o DerNull), HashId(m, DerNull)}

SaltForms(s) ==
    {DerInt(<<0, s>>), DerInt(<<255, s>>), DerInt(<<128 + s>>), DerInt(<<>>),
     Tlv(4, <<s>>), <<>>,
     DerInt(<<1, 0, 0, 0, 0, 0, 0, s>>), DerInt(<<0, 128, 0, 0, 0, 0, 0, 0, s>>),
     DerInt(<<1, 0, 0, 0, 0, 0, 0, 0, s>>)}

PssFormInputs ==
    UNION {
        {PssId(<<Field0(hf), Field1(MaskGen(kOidMgf1, HashId(a[1], DerNull))),
                 Field2(DerInt(EncUint(a[2])))>>) : hf \in HashForms(a[1])}
        \cup
        {PssId(<<Field0(HashId(a[1], DerNull)), Field1(mf),
                 Field2(DerInt(EncUint(a[2])))>>) : mf \in MaskGenForms(a[1])}
        \cup
        {PssId(<<Field0(HashId(a[1], DerNull)),
                 Field1(MaskGen(kOidMgf1, HashId(a[1], DerNull))), Field2(sf)>>) :
            sf \in SaltForms(a[2])}
        : a \in PssAccepted \cup {<<kOidDigestMd5, 32>>} }

\* An accepted input of each family followed by extra bytes.
PssExtraInputs ==
    {PssId(PssFields(a[1], a[1], a[2])) \o x : a \in PssAccepted, x \in Extras}
    \cup
    {AlgId(kOidRsaSsaPss, Tlv(48, Concat(PssFields(a[1], a[1], a[2]))) \o x) :
        a \in PssAccepted, x \in Extras}

\* Arbitrary byte strings: of at most this many bytes.
MaxFuzzLen == 4

\* The bytes they are made of: the identifier octets of SEQUENCE, OID, NULL
\* and INTEGER, the end-of-contents octet and a long-form length octet.
FuzzBytes == {0, 2, 5, 6, 48, 129}

FuzzInputs == SeqsUpTo(FuzzBytes, MaxFuzzLen)

\* The inputs of ParseAlgorithmIdentifier: AlgorithmIdentifiers of an OID
\* with each form of parameters, bytes after them, inside the SEQUENCE and
\* after it, and the byte strings above.
IdentifierOids == {kOidSha256WithRsaEncryption, kOidEcdsaWithSha1, <<>>}

IdentifierInputs ==
    {AlgId(oid, p) \o x : oid \in IdentifierOids, p \in ParamForms, x \in Extras}
    \cup {AlgId(oid, p \o x) : oid \in IdentifierOids, p \in ParamForms,
                               x \in Extras}
    \cup {AlgId(kOidRsaSsaPss,
                Tlv(48, Concat(PssFields(kOidDigestSha256, kOidDigestSha256, 32))))}
    \cup MalformedInputs \cup FuzzInputs

\* What the out-parameters of ParseAlgorithmIdentifier may hold before the
\* call: fresh der::Inputs, or the OID and parameters of an earlier call.
PriorIdentifiers ==
    {[algorithm |-> EmptyInput, parameters |-> EmptyInput],
     [algorithm |-> kOidEcdsaWithSha256, parameters |-> DerNull]}

Inputs ==
    TableInputs \cup MalformedInputs \cup PssTripleInputs \cup PssOrderInputs
    \cup PssTrailerInputs \cup PssFormInputs \cup PssExtraInputs

\* What a caller's CertErrors may hold before the call.
PriorRecord == [id |-> "Earlier error", oid |-> <<42>>, params |-> <<>>]

PriorErrors == SeqsUpTo({PriorRecord}, MaxPrior)

(***************************************************************************)
(* The calls.                                                              *)
(***************************************************************************)

\* The inputs of ParseHashAlgorithm and of ParseMaskGenAlgorithm: the
\* contents of the fields [0] and [1] above.
HashInputs == UNION {HashForms(h) : h \in DigestOids}

MaskGenInputs == UNION {MaskGenForms(m) \cup {MaskGen(kOidMgf1, HashId(m, DerNull))} : m \in DigestOids}

\* What a DigestAlgorithm the caller passes may hold before the call.
PriorDigests == {Uninit, "Sha1", "Sha512"}

\* The out-parameter of a call that has none.
NoOut == "none"

\* The SignatureAlgorithm argument of a call that has none.
NoAlg == "none"

\* Threads that call the classifier at the same time: at most this many.
MaxThreads == 2

Threads == 1..MaxThreads

\* The frame of a thread that is in no call.
IdleFrame ==
    [pc |-> "idle", fn |-> "none", input |-> <<>>, sink |-> FALSE,
     before |-> <<>>, errors |-> <<>>, oid |-> <<>>, params |-> <<>>,
     alg |-> NoAlg, result |-> nullopt]

(***************************************************************************)
(* base::Process on Chrome OS (process_linux.cc): the Process objects and  *)
(* their state before any clean-up is asked for.                           *)
(***************************************************************************)

\* Process objects whose cgroup is cleaned up: at most this many.
MaxProcesses == 2

Processes == 1..MaxProcesses

\* constexpr int kCgroupDeleteRetries = 3;
kCgroupDeleteRetries == 3

\* unique_token_ of a Process that has no cgroup of its own, and of one
\* that has.
NoToken == ""

SomeToken == "token"

\* No clean-up was asked for and nothing was posted.
NoCleanUpYet ==
    /\ started = [p \in Processes |-> FALSE]
    /\ pool = <<>>
    /\ attempts = [p \in Processes |-> 0]
    /\ moves = [p \in Processes |-> 0]
    /\ deleted = [p \in Processes |-> FALSE]

\* No function of ProxyClientSocket was called: nothing was given and
\* nothing built.
NoSocketCall ==
    /\ called = ""
    /\ host_and_port = ""
    /\ extra_headers = <<>>
    /\ user_agent = ""
    /\ request_line = <<>>
    /\ request_headers = <<>>
    /\ response_before = <<>>
    /\ response_headers = <<>>

\* The threads that free memory.
AllocatorThreads == {"main", "worker"}

\* No thread has called RandomPeriod: each counter is as initialised.
NoPeriodYet ==
    /\ counter = [t \in AllocatorThreads |-> 0]
    /\ run = [t \in AllocatorThreads |-> 0]
    /\ last = [thread |-> "", before |-> 0, random |-> 0, reloaded |-> FALSE,
               loaded |-> 0, returned |-> FALSE, run |-> 0]

\* Every Process is as constructed, without a cgroup of its own.
NoCgroups ==
    /\ feature = FALSE
    /\ cgroupsEnabled = FALSE
    /\ unique_token = [p \in Processes |-> NoToken]
    /\ NoCleanUpYet

\* The classifier's callers have made no call.
InitClassifier ==
    /\ pc = "idle"
    /\ fn = "none"
    /\ input = <<>>
    /\ sink = FALSE
    /\ before = <<>>
    /\ errors = <<>>
    /\ outBefore = NoOut
    /\ out = NoOut
    /\ result = nullopt
    /\ algArg = NoAlg
    /\ calls = 0
    /\ failed = 0
    /\ frames = [t \in Threads |-> IdleFrame]

Init ==
    /\ InitClassifier
    /\ NoCgroups
    /\ NoSocketCall
    /\ NoPeriodYet

\* A caller calls ParseSignatureAlgorithm(in, has_errors ? &errors : nullptr)
\* with a CertErrors holding |prior|, and the call returns.
CallParseSignatureAlgorithm(in, has_errors, prior) ==
    /\ pc = "idle"
    /\ result' = ParseSignatureAlgorithm(in, has_errors, prior).ret
    /\ errors' = ParseSignatureAlgorithm(in, has_errors, prior).errors
    /\ fn' = "ParseSignatureAlgorithm"
    /\ input' = in
    /\ sink' = has_errors
    /\ before' = prior
    /\ outBefore' = NoOut
    /\ out' = NoOut
    /\ pc' = "returned"
    /\ UNCHANGED <<algArg, calls, failed, frames, notClassifier>>

\* A caller calls ParseHashAlgorithm(in, &digest) with |digest| holding
\* |prior|, and the call returns.
CallParseHashAlgorithm(in, prior) ==
    /\ pc = "idle"
    /\ result' = ParseHashAlgorithm(in, prior).ok
    /\ out' = ParseHashAlgorithm(in, prior).out
    /\ fn' = "ParseHashAlgorithm"
    /\ input' = in
    /\ outBefore' = prior
    /\ pc' = "returned"
    /\ UNCHANGED <<sink, before, errors, algArg, calls, failed, frames,
                   notClassifier>>

\* ParseRsaPss calls ParseMaskGenAlgorithm(field, &mgf1_hash) on the content
\* of a field [1], and the call returns.
CallParseMaskGenAlgorithm(in, prior) ==
    /\ pc = "idle"
    /\ result' = ParseMaskGenAlgorithm(in, prior).ok
    /\ out' = ParseMaskGenAlgorithm(in, prior).out
    /\ fn' = "ParseMaskGenAlgorithm"
    /\ input' = in
    /\ outBefore' = prior
    /\ pc' = "returned"
    /\ UNCHANGED <<sink, before, errors, algArg, calls, failed, frames,
                   notClassifier>>

\* A caller calls ParseAlgorithmIdentifier(in, &algorithm, &parameters) with
\* the two der::Inputs holding |prior|, and the call returns.
CallParseAlgorithmIdentifier(in, prior) ==
    /\ pc = "idle"
    /\ result' = ParseAlgorithmIdentifier(in, prior.algorithm, prior.parameters).ok
    /\ out' = [algorithm |-> ParseAlgorithmIdentifier(in, prior.algorithm,
                                                     prior.parameters).algorithm,
               parameters |-> ParseAlgorithmIdentifier(in, prior.algorithm,
                                                      prior.parameters).parameters]
    /\ fn' = "ParseAlgorithmIdentifier"
    /\ input' = in
    /\ outBefore' = prior
    /\ pc' = "returned"
    /\ UNCHANGED <<sink, before, errors, algArg, calls, failed, frames,
                   notClassifier>>

\* A caller calls GetTlsServerEndpointDigestAlgorithm(a) and the call
\* returns.
CallGetTlsServerEndpointDigestAlgorithm(a) ==
    /\ pc = "idle"
    /\ result' = GetTlsServerEndpointDigestAlgorithm(a)
    /\ fn' = "GetTlsServerEndpointDigestAlgorithm"
    /\ algArg' = a
    /\ pc' = "returned"
    /\ UNCHANGED <<input, sink, before, errors, outBefore, out, calls, failed,
                   frames,
                   notClassifier>>

\* The caller is done with the result and with what it passed.
Release ==
    /\ pc = "returned"
    /\ pc' = "idle"
    /\ fn' = "none"
    /\ input' = <<>>
    /\ sink' = FALSE
    /\ before' = <<>>
    /\ errors' = <<>>
    /\ outBefore' = NoOut
    /\ out' = NoOut
    /\ result' = nullopt
    /\ algArg' = NoAlg
    /\ UNCHANGED <<calls, failed, frames, notClassifier>>

Call ==
    /\ pc = "idle"
    /\ \E in \in Inputs, has_errors \in BOOLEAN, prior \in PriorErrors :
          CallParseSignatureAlgorithm(in, has_errors, prior)

CallHash ==
    /\ pc = "idle"
    /\ \E in \in HashInputs, prior \in PriorDigests :
          CallParseHashAlgorithm(in, prior)

CallMaskGen ==
    /\ pc = "idle"
    /\ \E in \in MaskGenInputs : CallParseMaskGenAlgorithm(in, Uninit)

CallDigest ==
    /\ pc = "idle"
    /\ \E a \in SignatureAlgorithms : CallGetTlsServerEndpointDigestAlgorithm(a)

CallIdentifier ==
    /\ pc = "idle"
    /\ \E in \in IdentifierInputs, prior \in PriorIdentifiers :
          CallParseAlgorithmIdentifier(in, prior)

\* ParseSignatureAlgorithm is given arbitrary bytes.
CallFuzz ==
    /\ pc = "idle"
    /\ \E in \in FuzzInputs : CallParseSignatureAlgorithm(in, TRUE, <<>>)

Next ==
    \/ Call
    \/ CallFuzz
    \/ CallHash
    \/ CallMaskGen
    \/ CallIdentifier
    \/ CallDigest
    \/ Release

Spec == Init /\ [][Next]_vars

(***************************************************************************)
(* A caller that classifies one AlgorithmIdentifier after another and      *)
(* keeps one CertErrors for all of the calls.                              *)
(***************************************************************************)

\* Calls made with the CertErrors the caller keeps: at most this many.
MaxCalls == 3

\* One input of each outcome: an algorithm returned, a parameter rule
\* violated, an OID the table does not have, RSASSA-PSS parameters that do
\* not decode, and bytes that are no AlgorithmIdentifier.
SequenceInputs ==
    {AlgId(kOidSha256WithRsaEncryption, DerNull),
     AlgId(kOidEcdsaWithSha384, <<>>),
     PssId(PssFields(kOidDigestSha256, kOidDigestSha256, 32)),
     AlgId(kOidEcdsaWithSha256, DerNull),
     AlgId(kOidUnlisted, <<>>),
     AlgId(kOidRsaSsaPss, DerNull),
     PssId(PssFields(kOidDigestSha1, kOidDigestSha1, 20)),
     AlgId(kOidSha256WithRsaEncryption, DerNull) \o <<0>>,
     <<48, 0>>}

\* The caller calls ParseSignatureAlgorithm(in, has_errors ? &errors :
\* nullptr) with the CertErrors it keeps, and the call returns.
CallInSequence(in, has_errors) ==
    /\ pc = "idle"
    /\ calls < MaxCalls
    /\ result' = ParseSignatureAlgorithm(in, has_errors, errors).ret
    /\ errors' = ParseSignatureAlgorithm(in, has_errors, errors).errors
    /\ failed' = IF ParseSignatureAlgorithm(in, has_errors, errors).ret = nullopt
                 THEN failed + 1 ELSE failed
    /\ calls' = calls + 1
    /\ fn' = "ParseSignatureAlgorithm"
    /\ input' = in
    /\ sink' = has_errors
    /\ before' = errors
    /\ pc' = "returned"
    /\ UNCHANGED <<outBefore, out, algArg, frames, notClassifier>>

\* The caller is done with the result and keeps its CertErrors.
KeepErrors ==
    /\ pc = "returned"
    /\ pc' = "idle"
    /\ fn' = "none"
    /\ input' = <<>>
    /\ sink' = FALSE
    /\ before' = errors
    /\ result' = nullopt
    /\ UNCHANGED <<errors, outBefore, out, algArg, calls, failed, frames,
                   notClassifier>>

CallNext ==
    \E in \in SequenceInputs, has_errors \in BOOLEAN : CallInSequence(in, has_errors)

NextInSequence == CallNext \/ KeepErrors

SpecSequence == Init /\ [][NextInSequence]_vars

(***************************************************************************)
(* Threads that call the classifier at the same time, each on an input and *)
(* a CertErrors of its own.  A call of ParseSignatureAlgorithm takes two   *)
(* steps, the decoding of the AlgorithmIdentifier into the locals oid and  *)
(* params and the checks on them, and the steps of the threads interleave. *)
(***************************************************************************)

ThreadInputs ==
    {AlgId(kOidSha256WithRsaEncryption, DerNull),
     AlgId(kOidEcdsaWithSha256, <<>>),
     AlgId(kOidEcdsaWithSha256, DerNull),
     PssId(PssFields(kOidDigestSha384, kOidDigestSha384, 48)),
     AlgId(kOidUnlisted, DerNull),
     <<48, 0>>}

ThreadAlgorithms == {"kRsaPkcs1Sha1", "kRsaPssSha512", "kDsaSha256"}

\* The locals of the call thread |t| is in, were they of static storage
\* duration: one object for all the threads.
LocalsOf_Static(fr, t) == fr[1]

\* The locals of the call thread |t| is in: der::Input oid; der::Input
\* params; and the arguments, all of automatic storage duration.
LocalsOf(fr, t) == fr[t]

\* Thread |t| calls ParseSignatureAlgorithm(in, has_errors ? &errors :
\* nullptr) with an empty CertErrors of its own.
EnterParseSignatureAlgorithm(t, in, has_errors) ==
    /\ frames[t].pc = "idle"
    /\ frames' = [frames EXCEPT ![t] =
                     [IdleFrame EXCEPT !.pc = "identifier",
                                       !.fn = "ParseSignatureAlgorithm",
                                       !.input = in,
                                       !.sink = has_errors]]
    /\ UNCHANGED <<pc, fn, input, sink, before, errors, outBefore, out, result,
                   algArg, calls, failed,
                   notClassifier>>

\* if (!ParseAlgorithmIdentifier(algorithm_identifier, &oid, &params))
\*   return absl::nullopt;
StepIdentifier(t) ==
    /\ frames[t].pc = "identifier"
    /\ frames' = [frames EXCEPT ![t] =
          IF ParseAlgorithmIdentifier(frames[t].input, frames[t].oid,
                                      frames[t].params).ok
          THEN [frames[t] EXCEPT
                  !.pc = "checks",
                  !.oid = ParseAlgorithmIdentifier(frames[t].input, frames[t].oid,
                                                   frames[t].params).algorithm,
                  !.params = ParseAlgorithmIdentifier(frames[t].input,
                                                      frames[t].oid,
                                                      frames[t].params).parameters]
          ELSE [frames[t] EXCEPT !.pc = "done", !.result = nullopt]]
    /\ UNCHANGED <<pc, fn, input, sink, before, errors, outBefore, out, result,
                   algArg, calls, failed,
                   notClassifier>>

\* The checks of |oid| and |params| and what follows them.
ChecksOnLocals(l) ==
    SignatureAlgorithmAfterChecks(
        RunChecks(Checks, 1, l.oid, l.params),
        [ok |-> TRUE, algorithm |-> l.oid, parameters |-> l.params],
        l.sink, l.errors)

StepChecks(t) ==
    /\ frames[t].pc = "checks"
    /\ frames' = [frames EXCEPT ![t] =
          [frames[t] EXCEPT
             !.pc = "done",
             !.result = ChecksOnLocals(LocalsOf(frames, t)).ret,
             !.errors = ChecksOnLocals(LocalsOf(frames, t)).errors]]
    /\ UNCHANGED <<pc, fn, input, sink, before, errors, outBefore, out, result,
                   algArg, calls, failed,
                   notClassifier>>

\* Thread |t| calls GetTlsServerEndpointDigestAlgorithm(a).
EnterGetTlsServerEndpointDigestAlgorithm(t, a) ==
    /\ frames[t].pc = "idle"
    /\ frames' = [frames EXCEPT ![t] =
                     [IdleFrame EXCEPT !.pc = "switch",
                                       !.fn = "GetTlsServerEndpointDigestAlgorithm",
                                       !.alg = a]]
    /\ UNCHANGED <<pc, fn, input, sink, before, errors, outBefore, out, result,
                   algArg, calls, failed,
                   notClassifier>>

\* switch (alg) ...
StepSwitch(t) ==
    /\ frames[t].pc = "switch"
    /\ frames' = [frames EXCEPT ![t] =
          [frames[t] EXCEPT
             !.pc = "done",
             !.result = GetTlsServerEndpointDigestAlgorithm(
                            LocalsOf(frames, t).alg)]]
    /\ UNCHANGED <<pc, fn, input, sink, before, errors, outBefore, out, result,
                   algArg, calls, failed,
                   notClassifier>>

\* The caller on thread |t| is done with the result and with what it passed.
Leave(t) ==
    /\ frames[t].pc = "done"
    /\ frames' = [frames EXCEPT ![t] = IdleFrame]
    /\ UNCHANGED <<pc, fn, input, sink, before, errors, outBefore, out, result,
                   algArg, calls, failed,
                   notClassifier>>

Enter ==
    \E t \in Threads, in \in ThreadInputs, has_errors \in BOOLEAN :
        EnterParseSignatureAlgorithm(t, in, has_errors)

EnterDigest ==
    \E t \in Threads, a \in ThreadAlgorithms :
        EnterGetTlsServerEndpointDigestAlgorithm(t, a)

Step ==
    \E t \in Threads : StepIdentifier(t) \/ StepChecks(t) \/ StepSwitch(t) \/ Leave(t)

NextOfThreads == Enter \/ EnterDigest \/ Step

SpecThreads == Init /\ [][NextOfThreads]_vars

(***************************************************************************)
(* Cgroup clean-up of base::Process (process_linux.cc).  The ThreadPool    *)
(* runs the tasks posted to it one at a time, in any order; whether        *)
(* DeleteFile and WriteFile succeed is up to the file system.              *)
(***************************************************************************)

\* OneGroupPerRendererEnabled().
OneGroupPerRendererEnabled(feature_enabled, cgroups_enabled) ==
    feature_enabled /\ cgroups_enabled

\* Process::Duplicate(): a Process for the same pid with the same
\* unique_token_.
Duplicate(process) == process

\* BindOnce(&Process::CleanUpProcessScheduled, process, remaining_retries).
Task(process, remaining_retries) ==
    [process |-> process, remaining_retries |-> remaining_retries]

\* What one CleanUpProcess does: whether it called DeleteFile, whether it
\* called WriteFile, whether the cgroup is deleted, the tasks it posted.
Outcome(attempted, moved, is_deleted, posted) ==
    [attempted |-> attempted, moved |-> moved, deleted |-> is_deleted,
     posted |-> posted]

\* Process::CleanUpProcess posting the next attempt with the retries it was
\* given itself.
CleanUpProcess_SameRetries(process, token, remaining_retries, enabled, delete_ok, write_ok) ==
    IF ~enabled \/ token = NoToken THEN Outcome(FALSE, FALSE, FALSE, <<>>)
    ELSE IF delete_ok THEN Outcome(TRUE, FALSE, TRUE, <<>>)
    ELSE IF remaining_retries > 0
    THEN Outcome(TRUE, TRUE, FALSE,
                 <<Task(Duplicate(process), remaining_retries)>>)
    ELSE Outcome(TRUE, FALSE, FALSE, <<>>)

\* Process::CleanUpProcess(remaining_retries) on a Process with |token|;
\* |enabled| is OneGroupPerRendererEnabled(), |delete_ok| what
\* DeleteFile(cgroup) returns and |write_ok| what WriteFile(background_file,
\* pidstr) returns.  The task is posted whether the write succeeded or not.
CleanUpProcess(process, token, remaining_retries, enabled, delete_ok, write_ok) ==
    IF ~enabled \/ token = NoToken THEN Outcome(FALSE, FALSE, FALSE, <<>>)
    ELSE IF delete_ok THEN Outcome(TRUE, FALSE, TRUE, <<>>)
    ELSE IF remaining_retries > 0
    THEN Outcome(TRUE, TRUE, FALSE,
                 <<Task(Duplicate(process), remaining_retries - 1)>>)
    ELSE Outcome(TRUE, FALSE, FALSE, <<>>)

\* Process::CleanUpProcessAsync(): the tasks it posts.
CleanUpProcessAsyncPosts(process, token, feature_enabled) ==
    IF ~feature_enabled \/ token = NoToken THEN <<>>
    ELSE <<Task(Duplicate(process), kCgroupDeleteRetries)>>

\* |q| without its |i|-th element.
Without(q, i) == SubSeq(q, 1, i - 1) \o SubSeq(q, i + 1, Len(q))

\* The feature, the cgroup file systems and the tokens of the Processes are
\* what they are when clean-up begins.
InitCleanUp ==
    /\ InitClassifier
    /\ feature \in BOOLEAN
    /\ cgroupsEnabled \in BOOLEAN
    /\ unique_token \in [Processes -> {NoToken, SomeToken}]
    /\ NoCleanUpYet
    /\ NoSocketCall
    /\ NoPeriodYet

\* CleanUpProcessAsync() is called on Process |p|.
CleanUpProcessAsync(p) ==
    /\ ~started[p]
    /\ started' = [started EXCEPT ![p] = TRUE]
    /\ pool' = pool \o CleanUpProcessAsyncPosts(p, unique_token[p], feature)
    /\ UNCHANGED <<feature, cgroupsEnabled, unique_token, attempts, moves,
                   deleted, notCleanUp>>

\* The ThreadPool runs the |i|-th task: CleanUpProcessScheduled(process,
\* remaining_retries) calls process.CleanUpProcess(remaining_retries).
CleanUpProcessScheduled(i, o) ==
    /\ pool' = Without(pool, i) \o o.posted
    /\ attempts' = [attempts EXCEPT ![pool[i].process] =
                       IF o.attempted THEN @ + 1 ELSE @]
    /\ moves' = [moves EXCEPT ![pool[i].process] = IF o.moved THEN @ + 1 ELSE @]
    /\ deleted' = [deleted EXCEPT ![pool[i].process] = o.deleted]
    /\ UNCHANGED <<feature, cgroupsEnabled, unique_token, started, notCleanUp>>

RunTask ==
    \E i \in 1..Len(pool), delete_ok \in BOOLEAN, write_ok \in BOOLEAN :
        CleanUpProcessScheduled(
            i,
            CleanUpProcess(pool[i].process, unique_token[pool[i].process],
                           pool[i].remaining_retries,
                           OneGroupPerRendererEnabled(feature, cgroupsEnabled),
                           delete_ok, write_ok))

StartCleanUp == \E p \in Processes : CleanUpProcessAsync(p)

NextCleanUp == StartCleanUp \/ RunTask

\* The ThreadPool runs every task posted to it.
SpecCleanUp == InitCleanUp /\ [][NextCleanUp]_vars /\ WF_vars(RunTask)

(***************************************************************************)
(* The static functions of ProxyClientSocket (proxy_client_socket.cc,      *)
(* src/unnamed/part_001).  An HttpRequestHeaders is the sequence of its    *)
(* key and value pairs, of keys that differ beyond ASCII case; the header  *)
(* lines of an HttpResponseHeaders are a sequence of such pairs, in which  *)
(* a name may repeat; a request line is the sequence of the strings        *)
(* concatenated into it.                                                   *)
(***************************************************************************)

\* base::ToLowerASCII, on the header names used.
ToLowerASCII(name) ==
    CASE name = "X-Websocket-Path" -> "x-websocket-path"
      [] name \in {"User-Agent", "USER-AGENT"} -> "user-agent"
      [] name = "Upgrade" -> "upgrade"
      [] name \in {"Connection", "CONNECTION"} -> "connection"
      [] name = "X-Connect-Host" -> "x-connect-host"
      [] name = "Sec-Websocket-Key" -> "sec-websocket-key"
      [] name = "Proxy-Authorization" -> "proxy-authorization"
      [] name = "Proxy-Authenticate" -> "proxy-authenticate"
      [] name = "Content-Length" -> "content-length"
      [] name = "Set-Cookie" -> "set-cookie"
      [] name = "Server" -> "server"
      [] OTHER -> name

\* base::EqualsCaseInsensitiveASCII.
EqualsCaseInsensitiveASCII(a, b) == ToLowerASCII(a) = ToLowerASCII(b)

\* HttpRequestHeaders::FindHeader: the index of the header |key|, 0 when
\* there is none.
FindHeader(headers, key) ==
    IF \E i \in 1..Len(headers) : EqualsCaseInsensitiveASCII(headers[i].key, key)
    THEN CHOOSE i \in 1..Len(headers) :
             EqualsCaseInsensitiveASCII(headers[i].key, key)
    ELSE 0

\* HttpRequestHeaders::GetHeader(key, &out): what it returns and what |out|
\* holds after it.
GetHeader(headers, key, out0) ==
    IF FindHeader(headers, key) = 0 THEN [found |-> FALSE, out |-> out0]
    ELSE [found |-> TRUE, out |-> headers[FindHeader(headers, key)].value]

\* HttpRequestHeaders::SetHeader(key, value).
SetHeader(headers, key, value) ==
    IF FindHeader(headers, key) = 0
    THEN Append(headers, [key |-> key, value |-> value])
    ELSE [headers EXCEPT ![FindHeader(headers, key)].value = value]

\* HttpRequestHeaders::RemoveHeader(key).
RemoveHeader(headers, key) ==
    IF FindHeader(headers, key) = 0 THEN headers
    ELSE SubSeq(headers, 1, FindHeader(headers, key) - 1)
         \o SubSeq(headers, FindHeader(headers, key) + 1, Len(headers))

\* HttpRequestHeaders::MergeFrom(other): SetHeader for each header of
\* |other|, in order.
RECURSIVE MergeFrom(_, _)
MergeFrom(headers, other) ==
    IF other = <<>> THEN headers
    ELSE MergeFrom(SetHeader(headers, other[1].key, other[1].value),
                   SubSeq(other, 2, Len(other)))

\* HttpRequestHeaders::kUserAgent.
kUserAgent == "User-Agent"

\* BuildTunnelRequest from MergeFrom on: the header is removed when
\* |ws_path| is not empty.
TunnelRequestAfterUserAgent(ws, line, headers, extra) ==
    [request_line |-> line,
     request_headers |->
         IF ws.out # ""
         THEN RemoveHeader(MergeFrom(headers, extra), "X-Websocket-Path")
         ELSE MergeFrom(headers, extra)]

\* BuildTunnelRequest from the user agent on.
TunnelRequestAfterLine(ws, line, headers, extra, agent) ==
    TunnelRequestAfterUserAgent(
        ws, line,
        IF agent # "" THEN SetHeader(headers, kUserAgent, agent) ELSE headers,
        extra)

\* The headers of the WebSocket upgrade; |challenge| is the Base64 of the
\* 16 bytes crypto::RandBytes gave.
WebsocketHeaders(headers, host, challenge) ==
    SetHeader(
        SetHeader(
            SetHeader(SetHeader(headers, "Upgrade", "websocket"),
                      "Connection", "Upgrade"),
            "X-Connect-Host", host),
        "Sec-Websocket-Key", challenge)

\* BuildTunnelRequest from the reading of X-Websocket-Path on.
TunnelRequestAfterGetHeader(ws, host, extra, agent, headers, challenge) ==
    IF ws.found
    THEN TunnelRequestAfterLine(ws, <<"GET ", ws.out, " HTTP/1.1\r\n">>,
                                WebsocketHeaders(headers, host, challenge),
                                extra, agent)
    ELSE TunnelRequestAfterLine(ws, <<"CONNECT ", host, " HTTP/1.1\r\n">>,
                                headers, extra, agent)

\* ProxyClientSocket::BuildTunnelRequest.  |headers| is what
\* |*request_headers| holds before the call; std::string ws_path starts
\* empty.
BuildTunnelRequest(host, extra, agent, headers, challenge) ==
    TunnelRequestAfterGetHeader(GetHeader(extra, "X-Websocket-Path", ""), host,
                                extra, agent, headers, challenge)

\* kHeadersToKeep of SanitizeProxyAuth.
kHeadersToKeep ==
    <<"connection", "proxy-connection", "keep-alive", "trailer",
      "transfer-encoding", "upgrade", "content-length", "proxy-authenticate">>

\* The loop of SanitizeProxyAuth over EnumerateHeaderLines, with the names
\* compared as they are spelled.
HeadersToRemove_CaseSensitive(lines) ==
    {lines[i].key : i \in {i \in 1..Len(lines) :
        \A j \in 1..Len(kHeadersToKeep) : kHeadersToKeep[j] # lines[i].key}}

\* The loop of SanitizeProxyAuth over EnumerateHeaderLines:
\* headers_to_remove after it.
HeadersToRemove(lines) ==
    {lines[i].key : i \in {i \in 1..Len(lines) :
        \A j \in 1..Len(kHeadersToKeep) :
            ~EqualsCaseInsensitiveASCII(kHeadersToKeep[j], lines[i].key)}}

\* HttpResponseHeaders::RemoveHeaders(header_names): the lines left, which
\* are those of a name that is, in lower case, none of |header_names| in
\* lower case.
RemoveHeaders(lines, header_names) ==
    SelectSeq(lines,
              LAMBDA h : ToLowerASCII(h.key)
                             \notin {ToLowerASCII(n) : n \in header_names})

\* ProxyClientSocket::SanitizeProxyAuth: the header lines of
\* response.headers after it.
SanitizeProxyAuth(lines) == RemoveHeaders(lines, HeadersToRemove(lines))

\* Headers in an HttpRequestHeaders given as extra_headers, and header
\* lines in a response: at most this many.
MaxHeaders == 2

\* The HttpRequestHeaders of up to MaxHeaders headers: no two keys are
\* equal beyond case.
HeaderLists ==
    {h \in SeqsUpTo({[key |-> k, value |-> v] :
                         k \in {"X-Websocket-Path", "x-websocket-path",
                                "User-Agent", "Proxy-Authorization"},
                         v \in {"", "/ws", "v"}}, MaxHeaders) :
        \A i, j \in 1..Len(h) :
            i # j => ~EqualsCaseInsensitiveASCII(h[i].key, h[j].key)}

\* The header lines of a response to CONNECT: up to MaxHeaders of them.
ResponseLines ==
    SeqsUpTo({[key |-> k, value |-> v] :
                  k \in {"Connection", "connection", "CONNECTION",
                         "Proxy-Authenticate", "proxy-authenticate",
                         "Content-Length", "Set-Cookie", "set-cookie",
                         "Server"},
                  v \in {"a", "b"}}, MaxHeaders)

\* A caller calls BuildTunnelRequest(endpoint, extra, agent, &request_line,
\* &request_headers) with empty |request_headers|, and the call returns.
BuildTunnel ==
    /\ called = ""
    /\ \E extra \in HeaderLists, agent \in {"", "naive"},
          challenge \in {"AAAAAAAAAAAAAAAAAAAAAA==", "q83vEjRWeJCrze8SNFZ4kA=="} :
          /\ called' = "BuildTunnelRequest"
          /\ host_and_port' = "example.com:443"
          /\ extra_headers' = extra
          /\ user_agent' = agent
          /\ request_line' =
                BuildTunnelRequest("example.com:443", extra, agent, <<>>,
                                   challenge).request_line
          /\ request_headers' =
                BuildTunnelRequest("example.com:443", extra, agent, <<>>,
                                   challenge).request_headers
    /\ UNCHANGED <<response_before, response_headers, notSocket>>

\* A caller calls SanitizeProxyAuth(response), and the call returns.
Sanitize ==
    /\ called = ""
    /\ \E lines \in ResponseLines :
          /\ called' = "SanitizeProxyAuth"
          /\ response_before' = lines
          /\ response_headers' = SanitizeProxyAuth(lines)
    /\ UNCHANGED <<host_and_port, extra_headers, user_agent, request_line,
                   request_headers, notSocket>>

\* The caller is done with what the call gave.
Done ==
    /\ called # ""
    /\ called' = ""
    /\ host_and_port' = ""
    /\ extra_headers' = <<>>
    /\ user_agent' = ""
    /\ request_line' = <<>>
    /\ request_headers' = <<>>
    /\ response_before' = <<>>
    /\ response_headers' = <<>>
    /\ UNCHANGED notSocket

NextSocket == BuildTunnel \/ Sanitize \/ Done

SpecSocket == Init /\ [][NextSocket]_vars

(***************************************************************************)
(* RandomPeriod (partition_alloc-inl.h).                                   *)
(***************************************************************************)

\* The largest uint8_t.
UINT8_MAX == 255

\* static_cast<uint8_t>(value).
Uint8(value) == value % (UINT8_MAX + 1)

\* counter-- on a uint8_t that saturates at 0.
Decremented_Saturating(c) == IF c = 0 THEN 0 ELSE c - 1

\* counter-- on a uint8_t.
Decremented(c) == Uint8(c + UINT8_MAX)

\* |counter| after the reload: it takes the truncated |random| when it
\* is 0.
Reloaded(c, random) == IF c = 0 THEN Uint8(random) ELSE c

\* RandomPeriod with |c| in the thread's counter and |random| what
\* RandomValue gives if called: what it returns and what the counter holds
\* after it.
RandomPeriod(c, random) ==
    [counter |-> Decremented(Reloaded(c, random)),
     returned |-> Decremented(Reloaded(c, random)) = 0]

\* The values RandomValue gives, a uint32_t: some of them.
RandomValues == {0, 1, 3, 256, 259, 65536, 2147483647}

\* Thread |t| calls RandomPeriod; RandomValue is called, and gives
\* |random|, when the counter is 0.
CallRandomPeriod(t) ==
    /\ \E random \in (IF counter[t] = 0 THEN RandomValues ELSE {0}) :
          /\ counter' =
                [counter EXCEPT ![t] = RandomPeriod(counter[t], random).counter]
          /\ run' = [run EXCEPT
                       ![t] = IF RandomPeriod(counter[t], random).returned
                              THEN 0 ELSE run[t] + 1]
          /\ last' = [thread |-> t, before |-> counter[t], random |-> random,
                      reloaded |-> counter[t] = 0,
                      loaded |-> Reloaded(counter[t], random),
                      returned |-> RandomPeriod(counter[t], random).returned,
                      run |-> run[t] + 1]
    /\ UNCHANGED notPeriod

NextPeriod == \E t \in AllocatorThreads : CallRandomPeriod(t)

SpecPeriod == Init /\ [][NextPeriod]_vars

(***************************************************************************)
(* Properties.                                                             *)
(***************************************************************************)

\* A call of ParseSignatureAlgorithm has returned.
Classified == pc = "returned" /\ fn = "ParseSignatureAlgorithm"

\* The table of the classifier as the specification lists it: the OID and
\* the SignatureAlgorithm, by family.
TableRsaPkcs1 ==
    {<<kOidSha1WithRsaEncryption, "kRsaPkcs1Sha1">>,
     <<kOidSha1WithRsaSignature, "kRsaPkcs1Sha1">>,
     <<kOidSha256WithRsaEncryption, "kRsaPkcs1Sha256">>,
     <<kOidSha384WithRsaEncryption, "kRsaPkcs1Sha384">>,
     <<kOidSha512WithRsaEncryption, "kRsaPkcs1Sha512">>,
     <<kOidMd2WithRsaEncryption, "kRsaPkcs1Md2">>,
     <<kOidMd4WithRsaEncryption, "kRsaPkcs1Md4">>,
     <<kOidMd5WithRsaEncryption, "kRsaPkcs1Md5">>}

TableEcdsa ==
    {<<kOidEcdsaWithSha1, "kEcdsaSha1">>, <<kOidEcdsaWithSha256, "kEcdsaSha256">>,
     <<kOidEcdsaWithSha384, "kEcdsaSha384">>, <<kOidEcdsaWithSha512, "kEcdsaSha512">>}

TableDsa == {<<kOidDsaWithSha1, "kDsaSha1">>, <<kOidDsaWithSha256, "kDsaSha256">>}

TablePss ==
    {<<kOidDigestSha256, 32, "kRsaPssSha256">>, <<kOidDigestSha384, 48, "kRsaPssSha384">>,
     <<kOidDigestSha512, 64, "kRsaPssSha512">>}

\* Each OID of the table with its minimal valid parameter encodings (for
\* RSA PKCS#1 and DSA both the NULL and the absent form) and the listed
\* algorithm.
TableCases ==
    {<<AlgId(e[1], p), e[2]>> : e \in TableRsaPkcs1 \cup TableDsa, p \in {<<>>, DerNull}}
    \cup {<<AlgId(e[1], <<>>), e[2]>> : e \in TableEcdsa}
    \cup {<<PssId(PssFields(e[1], e[1], e[2])), e[3]>> : e \in TablePss}

\* C1: for every OID of the table with its minimal valid parameter encoding,
\* ParseSignatureAlgorithm returns exactly the listed SignatureAlgorithm.
C1_TableCoverage ==
    Classified => \A c \in TableCases : input = c[1] => result = c[2]

C1_Witness ==
    /\ Classified
    /\ input = AlgId(kOidSha1WithRsaSignature, DerNull)
    /\ result = "kRsaPkcs1Sha1"

\* Parameters that are one well-formed TLV other than a NULL of empty
\* content: a NULL tag with content, an OCTET STRING, a SEQUENCE.
OtherTlvs == {<<5, 1, 0>>, <<4, 0>>, <<48, 0>>}

\* C2: for each ECDSA OID the ECDSA algorithm is returned when the parameters
\* are absent, and no algorithm when they are a NULL or any other TLV.
EcdsaWithParams == {AlgId(e[1], p) : e \in TableEcdsa, p \in {DerNull} \cup OtherTlvs}

C2_EcdsaAbsentOnly ==
    Classified =>
        /\ \A e \in TableEcdsa : input = AlgId(e[1], <<>>) => result = e[2]
        /\ input \in EcdsaWithParams => result = nullopt

C2_Witness ==
    /\ Classified
    /\ input = AlgId(kOidEcdsaWithSha256, DerNull)
    /\ result = nullopt

\* C3: for every RSA PKCS#1 OID and every DSA OID the listed algorithm is
\* returned for absent and for NULL parameters alike, and no algorithm for
\* any other parameters TLV.
RsaDsaWithOtherParams ==
    {AlgId(e[1], p) : e \in TableRsaPkcs1 \cup TableDsa, p \in OtherTlvs}

C3_NullOrAbsent ==
    Classified =>
        /\ \A e \in TableRsaPkcs1 \cup TableDsa :
               input \in {AlgId(e[1], <<>>), AlgId(e[1], DerNull)} => result = e[2]
        /\ input \in RsaDsaWithOtherParams => result = nullopt

C3_Witness ==
    /\ Classified
    /\ input = AlgId(kOidDsaWithSha1, <<5, 1, 0>>)
    /\ result = nullopt

\* ParseSignatureAlgorithm returns an algorithm for |bytes|.
Accepts(bytes) == ParseSignatureAlgorithm(bytes, FALSE, <<>>).ret # nullopt

\* C4: an input that is an accepted input followed by one or more bytes is
\* rejected, in every family.
C4_TrailingDataRejected ==
    Classified =>
        \A k \in 1..(Len(input) - 1) :
            Accepts(SubSeq(input, 1, k)) => result = nullopt

C4_Witness ==
    /\ Classified
    /\ input = PssId(PssFields(kOidDigestSha384, kOidDigestSha384, 48)) \o <<0>>
    /\ result = nullopt

\* The four digests ParseHashAlgorithm supports, by OID.
SupportedDigests ==
    {<<kOidDigestSha1, "Sha1">>, <<kOidDigestSha256, "Sha256">>,
     <<kOidDigestSha384, "Sha384">>, <<kOidDigestSha512, "Sha512">>}

SupportedDigestOids == {d[1] : d \in SupportedDigests}

\* The encodings of the triples (hash, mgf1_hash, salt_length) of supported
\* digests that are not an accepted triple.
PssOtherTriples ==
    {PssId(PssFields(t[1], t[2], t[3])) :
        t \in {u \in SupportedDigestOids \X SupportedDigestOids \X Salts :
                  ~(u[1] = u[2] /\ <<u[1], u[3]>> \in PssAccepted)}}

\* C5: over the triples (hash, mgf1_hash, salt_length) of supported digests,
\* the PSS decoder returns a value if and only if hash = mgf1_hash and
\* (hash, salt_length) is (SHA256,32), (SHA384,48) or (SHA512,64), and then
\* the PSS algorithm of that hash.
C5_PssAcceptanceMatrix ==
    Classified =>
        /\ \A e \in TablePss :
               input = PssId(PssFields(e[1], e[1], e[2])) => result = e[3]
        /\ input \in PssOtherTriples => result = nullopt

C5_Witness ==
    /\ Classified
    /\ input = PssId(PssFields(kOidDigestSha256, kOidDigestSha512, 32))
    /\ result = nullopt

\* C6: PSS parameters with an element after field [2] (a trailerField [3] of
\* value 1 among them), or with one after the INTEGER inside [2], are
\* rejected though [0], [1], [2] form an accepted combination.
PssWithTrailer ==
    {PssId(PssFields(e[1], e[1], e[2]) \o <<t>>) : e \in TablePss, t \in AfterSalt}

PssWithSaltTrailer ==
    {PssId(<< Field0(HashId(e[1], DerNull)),
              Field1(MaskGen(kOidMgf1, HashId(e[1], DerNull))),
              Field2(DerInt(EncUint(e[2])) \o t) >>) :
        e \in TablePss, t \in {DerNull, DerInt(<<1>>), <<0>>}}

C6_PssTrailerRejected ==
    Classified =>
        /\ input \in PssWithTrailer => result = nullopt
        /\ input \in PssWithSaltTrailer => result = nullopt

C6_Witness ==
    /\ Classified
    /\ input = PssId(PssFields(kOidDigestSha256, kOidDigestSha256, 32) \o <<Field3>>)
    /\ result = nullopt

\* C7: PSS parameters that omit one of the fields [0], [1], [2], reorder
\* them or are empty are rejected, and so is id-RSASSA-PSS with absent or
\* NULL parameters.
PssOmittedOrReordered ==
    {PssId(Pick(PssFields(e[1], e[1], e[2]), o)) :
        e \in TablePss, o \in FieldOrders \ {<<1, 2, 3>>}}

C7_PssFieldsMandatoryInOrder ==
    Classified =>
        /\ input \in PssOmittedOrReordered => result = nullopt
        /\ input \in {AlgId(kOidRsaSsaPss, <<>>), AlgId(kOidRsaSsaPss, DerNull)}
               => result = nullopt

C7_Witness ==
    /\ Classified
    /\ input = PssId(Pick(PssFields(kOidDigestSha256, kOidDigestSha256, 32), <<1, 3>>))
    /\ result = nullopt

\* C8: ParseHashAlgorithm succeeds, with the digest as output, exactly for
\* SHA-1, SHA-256, SHA-384 and SHA-512 among the digest identifiers, and
\* fails for MD5, MD4 and every other; PSS parameters naming another digest
\* as hash or as MGF1 hash are rejected by the classifier.
UnsupportedDigestIds ==
    {HashId(h, p) : h \in DigestOids \ SupportedDigestOids, p \in {<<>>, DerNull}}

PssOfUnsupportedDigest ==
    {PssId(PssFields(t[1], t[2], t[3])) :
        t \in {u \in DigestOids \X DigestOids \X Salts :
                  u[1] \notin SupportedDigestOids \/ u[2] \notin SupportedDigestOids}}

C8_OnlySupportedDigests ==
    /\ (pc = "returned" /\ fn = "ParseHashAlgorithm") =>
           /\ \A d \in SupportedDigests, p \in {<<>>, DerNull} :
                  input = HashId(d[1], p) => (result = TRUE /\ out = d[2])
           /\ input \in UnsupportedDigestIds => result = FALSE
           /\ result = TRUE => out \in {d[2] : d \in SupportedDigests}
    /\ Classified => (input \in PssOfUnsupportedDigest => result = nullopt)

C8_Witness ==
    /\ pc = "returned"
    /\ fn = "ParseHashAlgorithm"
    /\ input = HashId(kOidDigestMd5, DerNull)
    /\ result = FALSE

\* C9: ParseMaskGenAlgorithm succeeds only on an AlgorithmIdentifier of OID
\* id-mgf1 whose parameters are a supported digest; another OID fails
\* whatever the parameters, and id-mgf1 with absent parameters fails.
Mgf1OfSupportedDigest ==
    {MaskGen(kOidMgf1, HashId(m, p)) : m \in SupportedDigestOids, p \in {<<>>, DerNull}}

Mgf1OfUnsupportedDigest ==
    {MaskGen(kOidMgf1, HashId(m, DerNull)) : m \in DigestOids \ SupportedDigestOids}

MaskGenOfOtherOid ==
    UNION {{MaskGen(o, p) : o \in {kOidUnlisted, kOidRsaSsaPss, m},
                            p \in {<<>>, DerNull, HashId(m, DerNull)}} :
           m \in DigestOids}

C9_MaskGenOnlyMgf1 ==
    (pc = "returned" /\ fn = "ParseMaskGenAlgorithm") =>
        /\ input \in Mgf1OfSupportedDigest => result = TRUE
        /\ input \in Mgf1OfUnsupportedDigest => result = FALSE
        /\ input \in MaskGenOfOtherOid => result = FALSE
        /\ input = MaskGen(kOidMgf1, <<>>) => result = FALSE
        /\ result = TRUE => input \in Mgf1OfSupportedDigest

C9_Witness ==
    /\ pc = "returned"
    /\ fn = "ParseMaskGenAlgorithm"
    /\ input = MaskGen(kOidUnlisted, HashId(kOidDigestSha256, DerNull))
    /\ result = FALSE

\* Parameters ParseAlgorithmIdentifier decodes: none, or one TLV.
DecodableParams ==
    {<<>>, DerNull} \cup OtherTlvs
    \cup {Tlv(48, Concat(PssFields(e[1], e[1], 20))) : e \in TablePss}

\* C10: whenever ParseSignatureAlgorithm fails on a decoded
\* AlgorithmIdentifier, because no entry of the table has the OID or
\* because the parameter rule of the entry that has it is violated (the PSS
\* decoder for id-RSASSA-PSS), and a sink is supplied, an "Unknown signature
\* algorithm" record with the OID and the parameters is added to the sink.
C10_FailureIsRecorded ==
    (Classified /\ sink /\ result = nullopt) =>
        \A o \in TopOids, p \in DecodableParams :
            input = AlgId(o, p) =>
                errors = Append(before, [id |-> "Unknown signature algorithm",
                                         oid |-> o, params |-> p])


\* What the CertErrors held when the call was made is still in place, and
\* the records the call added after it.
KeepsPrior ==
    Len(errors) >= Len(before) /\ SubSeq(errors, 1, Len(before)) = before

AddedRecords == SubSeq(errors, Len(before) + 1, Len(errors))

\* C11: one call of ParseSignatureAlgorithm adds at most one record to the
\* diagnostic sink and leaves what the sink held in place, adds none when it
\* returns an algorithm, and after any sequence of calls the sink holds at
\* most as many records as calls that failed.
C11_AtMostOneRecordPerFailure ==
    /\ Classified =>
          /\ KeepsPrior
          /\ Len(AddedRecords) <= 1
          /\ result # nullopt => AddedRecords = <<>>
    /\ Len(errors) <= failed
    /\ failed <= calls

\* Three calls were made with one sink: the first returned an algorithm,
\* the two after it failed and each added its one record.
C11_Witness ==
    /\ Classified
    /\ calls = 3
    /\ failed = 2
    /\ result = nullopt
    /\ Len(before) = 1
    /\ Len(errors) = 2


\* C12: for every input ParseSignatureAlgorithm returns the same value,
\* the same algorithm or none, whether the diagnostic sink is supplied or
\* null and whatever the sink already holds.
C12_ResultIndependentOfSink ==
    Classified =>
        \A has_errors \in BOOLEAN, prior \in PriorErrors :
            ParseSignatureAlgorithm(input, has_errors, prior).ret = result

\* A call without a sink failed on an OID the table does not have, where a
\* call with a sink adds a record.
C12_Witness ==
    /\ Classified
    /\ ~sink
    /\ input = AlgId(kOidUnlisted, <<>>)
    /\ result = nullopt
    /\ ParseSignatureAlgorithm(input, TRUE, <<PriorRecord>>).errors # <<PriorRecord>>


\* The digest for tls-server-end-point channel bindings as the
\* specification lists it: the SignatureAlgorithm and the digest, "nullopt"
\* where there is none.
EndpointDigestTable ==
    {<<"kRsaPkcs1Md5", "Sha256">>, <<"kRsaPkcs1Sha1", "Sha256">>,
     <<"kEcdsaSha1", "Sha256">>, <<"kRsaPkcs1Sha256", "Sha256">>,
     <<"kEcdsaSha256", "Sha256">>, <<"kRsaPssSha256", "Sha256">>,
     <<"kRsaPkcs1Sha384", "Sha384">>, <<"kEcdsaSha384", "Sha384">>,
     <<"kRsaPssSha384", "Sha384">>, <<"kRsaPkcs1Sha512", "Sha512">>,
     <<"kEcdsaSha512", "Sha512">>, <<"kRsaPssSha512", "Sha512">>,
     <<"kDsaSha1", "nullopt">>, <<"kDsaSha256", "nullopt">>,
     <<"kRsaPkcs1Md2", "nullopt">>, <<"kRsaPkcs1Md4", "nullopt">>}

\* A call of GetTlsServerEndpointDigestAlgorithm has returned.
DigestChosen == pc = "returned" /\ fn = "GetTlsServerEndpointDigestAlgorithm"

\* C13: GetTlsServerEndpointDigestAlgorithm maps each of the 16
\* SignatureAlgorithm values to the outcome the table lists (SHA-256 for the
\* MD5 and SHA-1 based ones, the own digest for the SHA-2 based ones, none
\* for DSA, MD2 and MD4), and never returns SHA-1.
C13_EndpointDigestTable ==
    /\ Cardinality(SignatureAlgorithms) = 16
    /\ {e[1] : e \in EndpointDigestTable} = SignatureAlgorithms
    /\ DigestChosen =>
          /\ <<algArg, result>> \in EndpointDigestTable
          /\ result # "Sha1"

\* The digest for ECDSA with SHA-1 was asked for and is SHA-256.
C13_Witness ==
    DigestChosen /\ algArg = "kEcdsaSha1" /\ result = "Sha256"


\* X.690 DER, for elements of less than 256 content octets and a tag number
\* below 31: the octets the element at the start of |b| takes by its
\* identifier and length octets, 0 when they are not well formed or |b| is
\* shorter.  Tag number 0 of the universal class is reserved.
HeaderSize(b) ==
    IF Len(b) < 2 THEN 0
    ELSE IF b[1] % 32 = 31 \/ b[1] \in {0, 32} THEN 0
    ELSE IF b[2] < 128 THEN 2
    ELSE IF b[2] = 129 /\ Len(b) >= 3 THEN (IF b[3] >= 128 THEN 3 ELSE 0)
    ELSE 0

ElementSize(b) ==
    IF HeaderSize(b) = 0 THEN 0
    ELSE IF HeaderSize(b) + b[HeaderSize(b)] > Len(b) THEN 0
    ELSE HeaderSize(b) + b[HeaderSize(b)]

ContentOf(b) == SubSeq(b, HeaderSize(b) + 1, ElementSize(b))

AfterElement(b) == SubSeq(b, ElementSize(b) + 1, Len(b))

\* |b| is exactly one element.
IsOneElement(b) == ElementSize(b) > 0 /\ ElementSize(b) = Len(b)

\* |b| is exactly one SEQUENCE, whose first element is an OID, and which
\* holds nothing more or exactly one further element that ends it.
IsAlgorithmIdentifier(b) ==
    /\ IsOneElement(b)
    /\ b[1] = 48
    /\ ElementSize(ContentOf(b)) > 0
    /\ ContentOf(b)[1] = 6
    /\ \/ AfterElement(ContentOf(b)) = <<>>
       \/ IsOneElement(AfterElement(ContentOf(b)))

\* A call of ParseAlgorithmIdentifier has returned.
Identified == pc = "returned" /\ fn = "ParseAlgorithmIdentifier"

\* C14: ParseAlgorithmIdentifier succeeds if and only if the input is
\* exactly one SEQUENCE with nothing after it, whose first element is an OID
\* and which holds nothing more or exactly one further TLV that ends the
\* SEQUENCE; on success it outputs the content of the OID and the raw TLV of
\* the parameters.
C14_IdentifierIffWellFormed ==
    Identified =>
        /\ result = IsAlgorithmIdentifier(input)
        /\ result =>
              /\ out.algorithm = ContentOf(ContentOf(input))
              /\ out.parameters = AfterElement(ContentOf(input))

\* An AlgorithmIdentifier with two parameters elements was refused.
C14_Witness ==
    /\ Identified
    /\ input = AlgId(kOidSha256WithRsaEncryption, <<5, 0, 5, 0>>)
    /\ result = FALSE


\* C15: for every byte string up to a bound a call of
\* ParseSignatureAlgorithm returns, and what it returns is one of the 16
\* SignatureAlgorithm values or no algorithm; the sink holds records only.
C15_OutcomeIsAlgorithmOrNone ==
    Classified =>
        /\ result \in SignatureAlgorithms \cup {nullopt}
        /\ KeepsPrior
        /\ \A i \in 1..Len(AddedRecords) :
              AddedRecords[i].id = kUnknownSignatureAlgorithm

\* Four arbitrary bytes that happen to be a SEQUENCE of an empty OID were
\* classified: no algorithm, and a record.
C15_Witness ==
    /\ Classified
    /\ input = <<48, 2, 6, 0>>
    /\ input \in FuzzInputs
    /\ result = nullopt
    /\ Len(errors) = 1


\* The call thread |t| made has returned what the same call returns when it
\* runs alone, and its CertErrors holds what it holds then.
AsWhenAlone(t) ==
    /\ frames[t].fn = "ParseSignatureAlgorithm" =>
          /\ frames[t].result =
                ParseSignatureAlgorithm(frames[t].input, frames[t].sink,
                                        frames[t].before).ret
          /\ frames[t].errors =
                ParseSignatureAlgorithm(frames[t].input, frames[t].sink,
                                        frames[t].before).errors
    /\ frames[t].fn = "GetTlsServerEndpointDigestAlgorithm" =>
          frames[t].result = GetTlsServerEndpointDigestAlgorithm(frames[t].alg)

\* A step changes the frame of one thread, with the CertErrors that thread
\* passed, and nothing else; a thread that enters a call finds nothing of an
\* earlier call.
OnlyOwnFrame ==
    /\ \A t, u \in Threads :
          (t # u /\ frames'[t] # frames[t]) => frames'[u] = frames[u]
    /\ \A t \in Threads :
          (frames[t].pc = "idle" /\ frames'[t].pc # "idle") =>
              /\ frames'[t].oid = EmptyInput
              /\ frames'[t].params = EmptyInput
              /\ frames'[t].errors = frames'[t].before

\* C16: classification calls keep no state between calls: in every
\* interleaving of the steps of concurrent ParseSignatureAlgorithm and
\* GetTlsServerEndpointDigestAlgorithm calls on inputs of their callers,
\* each call returns what it returns when run alone, and a call modifies
\* nothing outside its own frame but the diagnostic sink passed to it.
C16_CallsAreIndependent ==
    /\ [](\A t \in Threads : frames[t].pc = "done" => AsWhenAlone(t))
    /\ [][OnlyOwnFrame]_vars

\* Two calls are in flight at once: one has decoded its OID and waits for
\* the checks while the other has returned for another input.
C16_Witness ==
    /\ frames[1].pc = "done"
    /\ frames[1].result = "kRsaPkcs1Sha256"
    /\ frames[2].pc = "checks"
    /\ frames[2].oid = kOidEcdsaWithSha256
    /\ frames[2].sink


\* Other orders of the sequential checks: the order reversed, and each
\* rotation of it, which between them bring every check before every other.
Reversed(checks) == [i \in 1..Len(checks) |-> checks[Len(checks) + 1 - i]]

Rotated(checks, k) ==
    [i \in 1..Len(checks) |-> checks[((i + k - 1) % Len(checks)) + 1]]

Reorderings ==
    {Reversed(Checks)} \cup {Rotated(Checks, k) : k \in 1..(Len(Checks) - 1)}

\* The checks whose condition holds for |oid| and |params|.
MatchingChecks(oid, params) ==
    {i \in 1..Len(Checks) : CheckMatches(Checks[i], oid, params)}

\* The checks in any other order return and record for the decoded |id|
\* what the call returned and recorded.
SameInAnyOrder(id) ==
    id.ok =>
        /\ Cardinality(MatchingChecks(id.algorithm, id.parameters)) <= 1
        /\ \A checks \in Reorderings :
              SignatureAlgorithmAfterChecks(
                  RunChecks(checks, 1, id.algorithm, id.parameters), id, sink,
                  before)
              = [ret |-> result, errors |-> errors]

\* C17: the OIDs of the table are pairwise distinct byte strings, so at most
\* one check can hold for an OID and parameters, and ParseSignatureAlgorithm
\* returns the same value and writes the same record whatever the order of
\* the sequential checks.
C17_OrderOfChecksIrrelevant ==
    /\ \A i, j \in 1..Len(Checks) : i # j => Checks[i].oid # Checks[j].oid
    /\ Classified =>
          SameInAnyOrder(ParseAlgorithmIdentifier(input, EmptyInput, EmptyInput))

\* ecdsa-with-SHA1 without parameters was classified by the ninth check,
\* which the reversed order reaches seventh.
C17_Witness ==
    /\ Classified
    /\ input = AlgId(kOidEcdsaWithSha1, <<>>)
    /\ result = "kEcdsaSha1"
    /\ MatchingChecks(kOidEcdsaWithSha1, <<>>) = {9}
    /\ Reversed(Checks)[7].oid = kOidEcdsaWithSha1


\* C18: on success ParseAlgorithmIdentifier outputs zero-length parameters
\* if and only if no element follows the OID inside the SEQUENCE; parameters
\* that are present, NULL and other elements of empty content included, are
\* output whole with their tag and length octets, hence non-empty; and the
\* output is reset to empty whatever it held before the call.
C18_EmptyIffAbsent ==
    (Identified /\ result) =>
        /\ input = AlgId(out.algorithm, out.parameters)
        /\ out.parameters = <<>> <=> input = AlgId(out.algorithm, <<>>)
        /\ out.parameters # <<>> =>
              /\ IsOneElement(out.parameters)
              /\ Len(out.parameters) >= 2

\* An AlgorithmIdentifier without parameters was decoded into a der::Input
\* that held the NULL of an earlier call, and it is empty now.
C18_Witness ==
    /\ Identified
    /\ result
    /\ input = AlgId(kOidSha256WithRsaEncryption, <<>>)
    /\ outBefore.parameters = DerNull
    /\ out.parameters = <<>>


\* C19: when the input of ParseSignatureAlgorithm does not decode as an
\* AlgorithmIdentifier (malformed DER, bytes after the SEQUENCE, a first
\* element that is no OID, more than one parameters element) the call
\* returns no algorithm and adds no record to the sink, supplied or not.
C19_UndecodableIsNotRecorded ==
    (Classified /\ ~IsAlgorithmIdentifier(input)) =>
        /\ result = nullopt
        /\ errors = before

\* A known OID with two NULLs for parameters was refused with a sink
\* supplied, and the sink holds what it held.
C19_Witness ==
    /\ Classified
    /\ sink
    /\ input = AlgId(kOidSha256WithRsaEncryption, <<5, 0, 5, 0>>)
    /\ result = nullopt
    /\ before = <<PriorRecord>>
    /\ errors = before


\* enum class DigestAlgorithm, the values ParseHashAlgorithm assigns.
AssignedDigests == {"Sha1", "Sha256", "Sha384", "Sha512"}

\* The call was given id-RSASSA-PSS with one SEQUENCE as parameters, so
\* that ParseRsaPss got to its locals.
PssFieldsWereRead ==
    /\ Classified
    /\ IsAlgorithmIdentifier(input)
    /\ ContentOf(ContentOf(input)) = kOidRsaSsaPss
    /\ IsOneElement(AfterElement(ContentOf(input)))
    /\ AfterElement(ContentOf(input))[1] = 48

\* The locals are read by the combination checks, which control reaches
\* when |f.ok|, only when all three were assigned; when control does not
\* reach them the call returns no algorithm.
ReadOnlyWhenAssigned(f) ==
    /\ f.ok =>
          /\ f.hash \in AssignedDigests
          /\ f.mgf1_hash \in AssignedDigests
          /\ Len(f.salt_length) \in Nat
          /\ result = PssCombination(f.hash, f.mgf1_hash, f.salt_length)
    /\ ~f.ok => result = nullopt

\* C20: in ParseRsaPss the locals hash, mgf1_hash and salt_length are read
\* by the combination checks only in executions where all three were
\* assigned by the successful decoding of the fields [0], [1] and [2]; and
\* ParseHashAlgorithm leaves its output digest as it was whenever it returns
\* false.
C20_LocalsReadOnlyWhenAssigned ==
    /\ PssFieldsWereRead =>
          ReadOnlyWhenAssigned(
              ParseRsaPssFields(ContentOf(AfterElement(ContentOf(input)))))
    /\ (pc = "returned" /\ fn = "ParseHashAlgorithm" /\ result = FALSE) =>
          out = outBefore

\* RSASSA-PSS parameters without the field [0] were given: hash was never
\* assigned, and the call returned before the combination checks.
C20_Witness ==
    /\ PssFieldsWereRead
    /\ input = PssId(<<Field1(MaskGen(kOidMgf1, HashId(kOidDigestSha256, DerNull))),
                       Field2(DerInt(EncUint(32)))>>)
    /\ ParseRsaPssFields(ContentOf(AfterElement(ContentOf(input)))).hash = Uninit
    /\ result = nullopt


\* The tasks in the pool |q| that clean up Process |p|.
TasksIn(q, p) == {i \in 1..Len(q) : q[i].process = p}

\* The retries the one task of Process |p| in the pool |q| carries.
RetriesIn(q, p) == q[CHOOSE i \in TasksIn(q, p) : TRUE].remaining_retries

\* No more than kCgroupDeleteRetries + 1 attempts to delete, no more than
\* kCgroupDeleteRetries moves to the background cgroup, one task at a time,
\* and attempts only for a Process that has a token.
CleanUpIsBounded ==
    \A p \in Processes :
        /\ attempts[p] <= kCgroupDeleteRetries + 1
        /\ moves[p] <= kCgroupDeleteRetries
        /\ Cardinality(TasksIn(pool, p)) <= 1
        /\ unique_token[p] = NoToken => attempts[p] = 0
        /\ TasksIn(pool, p) # {} =>
              attempts[p] + RetriesIn(pool, p) <= kCgroupDeleteRetries

\* An attempt that fails with retries left tries the move and posts one
\* task with one retry less; an attempt that succeeds, or fails with no
\* retries left, posts nothing.
AttemptStep ==
    \A p \in Processes :
        attempts'[p] = attempts[p] + 1 =>
            IF ~deleted'[p] /\ RetriesIn(pool, p) > 0
            THEN /\ moves'[p] = moves[p] + 1
                 /\ Cardinality(TasksIn(pool', p)) = 1
                 /\ RetriesIn(pool', p) = RetriesIn(pool, p) - 1
            ELSE /\ moves'[p] = moves[p]
                 /\ TasksIn(pool', p) = {}

\* C21: cgroup clean-up started by CleanUpProcessAsync makes at most
\* kCgroupDeleteRetries + 1 = 4 attempts to delete the cgroup directory:
\* each failed attempt with retries left tries to move the process to the
\* background cgroup and schedules exactly one further attempt with one
\* retry less, also when the move fails; a successful delete or a failed
\* attempt with no retries left schedules nothing; so the chain of retries
\* always ends.
C21_CleanUpRetriesEnd ==
    /\ [](kCgroupDeleteRetries + 1 = 4 /\ CleanUpIsBounded)
    /\ [][AttemptStep]_vars
    /\ <>[](pool = <<>>)

\* Every attempt for a Process failed: four were made, three of them
\* followed by a move, and nothing is scheduled any more.
C21_Witness ==
    \E p \in Processes :
        /\ unique_token[p] = SomeToken
        /\ started[p]
        /\ attempts[p] = 4
        /\ moves[p] = 3
        /\ ~deleted[p]
        /\ pool = <<>>


\* |headers| has a header of the name, whatever the case.
HasHeader(headers, name) ==
    \E i \in 1..Len(headers) : ToLowerASCII(headers[i].key) = ToLowerASCII(name)

\* C22: after BuildTunnelRequest on empty request_headers, for every
\* extra_headers that has an X-Websocket-Path header, of any value, the
\* empty string included, the request line is a GET request and the
\* resulting request_headers have no X-Websocket-Path header; when
\* extra_headers has none the request line is CONNECT host:port HTTP/1.1.
C22_WebsocketPathIsStripped ==
    called = "BuildTunnelRequest" =>
        IF HasHeader(extra_headers, "X-Websocket-Path")
        THEN /\ request_line[1] = "GET "
             /\ ~HasHeader(request_headers, "X-Websocket-Path")
        ELSE request_line = <<"CONNECT ", host_and_port, " HTTP/1.1\r\n">>


\* The header lines of a name that matches, whatever the case, one of
\* kHeadersToKeep.
Kept(lines) ==
    SelectSeq(lines,
              LAMBDA h : \E j \in 1..Len(kHeadersToKeep) :
                             ToLowerASCII(h.key) = kHeadersToKeep[j])

\* C23: after SanitizeProxyAuth, every header remaining in the response
\* has a name that matches, ASCII case-insensitively, one of connection,
\* proxy-connection, keep-alive, trailer, transfer-encoding, upgrade,
\* content-length, proxy-authenticate, and every header that was present
\* with such a name is still present, as spelled, with its value unchanged.
C23_OnlyHopByHopHeadersRemain ==
    called = "SanitizeProxyAuth" =>
        /\ {"connection", "proxy-connection", "keep-alive", "trailer",
             "transfer-encoding", "upgrade", "content-length",
             "proxy-authenticate"}
               = {kHeadersToKeep[j] : j \in 1..Len(kHeadersToKeep)}
        /\ Kept(response_headers) = response_headers
        /\ Kept(response_before) = Kept(response_headers)

\* A response with a header to keep, spelled in capitals, and one to
\* remove was sanitized: the one left is the one to keep.
C23_Witness ==
    /\ called = "SanitizeProxyAuth"
    /\ response_before = <<[key |-> "Set-Cookie", value |-> "a"],
                           [key |-> "CONNECTION", value |-> "b"]>>
    /\ response_headers = <<[key |-> "CONNECTION", value |-> "b"]>>

\* C24: RandomPeriod keeps a counter of 8 bits for each thread; a call
\* reloads it, from the random value truncated to 8 bits, only when it is
\* 0, decrements it modulo 256 and returns true exactly when the result is
\* 0; no thread makes 256 calls in a row without one of them returning
\* true, and a reload that yields 0 wraps to 255 and returns false.
C24_TrueWithinEvery256Calls ==
    /\ \A t \in AllocatorThreads : counter[t] \in 0..255 /\ run[t] <= 255
    /\ last.thread # "" =>
          /\ last.reloaded = (last.before = 0)
          /\ last.loaded = IF last.before = 0 THEN last.random % 256
                           ELSE last.before
          /\ counter[last.thread] = (last.loaded + 255) % 256
          /\ last.returned = (counter[last.thread] = 0)
          /\ run[last.thread] = IF last.returned THEN 0 ELSE last.run
          /\ (last.reloaded /\ last.loaded = 0) =>
                counter[last.thread] = 255 /\ ~last.returned

\* A thread reloaded 0 and after 255 calls that returned false its 256th
\* call returned true, while the other thread, which reloaded 0 as well,
\* has made one call.
C24_Witness ==
    /\ last.thread = "worker"
    /\ last.run = 256
    /\ last.returned
    /\ run["worker"] = 0
    /\ counter["main"] = 255

====
